---- MODULE Spec2Model ----
(***************************************************************************)
(* PyFOPPL-2: the compilation pipeline from source text to the graphical   *)
(* model.  The repository holds two generations of the pipeline: the       *)
(* package foppl (Compiler, graphs) and the package pyppl (GraphGenerator, *)
(* GraphFactory, optimizer, SSA pass, symbol table).  Each pass is         *)
(* modelled by its own specification over the module's variables; a        *)
(* specification leaves the variables of the other passes untouched.       *)
(***************************************************************************)
EXTENDS Integers, Sequences, FiniteSets, TLC

(***************************************************************************)
(* Bounds of the model.                                                    *)
(***************************************************************************)
MaxNodes == 4
MaxDepth == 2
MaxBindings == 3
\* the length of an AstVector of distinct items, and of a repeated item
MaxVectorLen == 2
MaxRepeat == 4

(***************************************************************************)
(* Generic helpers.                                                        *)
(***************************************************************************)
Range(s) == { s[i] : i \in 1..Len(s) }

RECURSIVE SeqUnion(_)
SeqUnion(s) == IF s = <<>> THEN {} ELSE Head(s) \cup SeqUnion(Tail(s))

(***************************************************************************)
(*                    PART 1: GRAPH CONSTRUCTION                           *)
(*                                                                         *)
(* State of a walk of the compiler over a program.  `pipeline` says which  *)
(* generation walks: "foppl" (foppl/compilers.py, foppl/graphs.py) or      *)
(* "pyppl" (pyppl/backend).  A node is referred to by its index in `nodes`,*)
(* which lists the nodes in the order of their creation.                   *)
(***************************************************************************)
VARIABLES
    pipeline,        \* "foppl" | "pyppl" | "none"
    symbol_counter,  \* class name -> counter (GraphNode.__symbol_counter__, GraphFactory._counter)
    nodes,           \* created graph nodes, in creation order
    cond_scope,      \* foppl Compiler.cond_scope: innermost first
    conditions,      \* pyppl GraphGenerator.conditions: innermost first
    walk,            \* position of the walker: the Ifs it is inside, innermost first
    bindings         \* pyppl: results (expr, parents) of visited expressions bound in scope

GraphVars == <<pipeline, symbol_counter, nodes, cond_scope, conditions, walk, bindings>>

\* PART 2, the log-pdf of the model
VARIABLES
    pdf_mode,       \* "text" | "update" | "sample" | "factory" | "none"
    compute_nodes,  \* the node list handed to the mechanism
    pdf_phase,      \* "gen" (emitting lines), "run" (computing)
    pdf_pos,        \* index of the next node (gen, update) or line (text run)
    distribution,   \* gen_logpdf_code: the last `dst_ = ...` line emitted, <<>> for None
    logpdf_code,    \* gen_logpdf_code: the lines emitted
    sample_code,    \* gen_sample_code: the lines emitted
    state,          \* the state mapping: ConditionNode -> value, for the conditions computed
    dst,            \* the run-time value of dst_, "" before the first assignment
    contributions   \* vertex -> distribution whose log-pdf was added for it

PdfVars == <<pdf_mode, compute_nodes, pdf_phase, pdf_pos, distribution, logpdf_code,
             sample_code, state, dst, contributions>>

\* PART 3, the static-single-assignment pass
VARIABLES
    ssa_on,         \* TRUE while the pass of PART 3 is the one modelled
    ssa_symbols,    \* StaticAssignments.symbols: source name -> Symbol.counter
    ssa_scope,      \* StaticAssignments.symbol_scope: the bindings of the scopes, innermost first
    ssa_out,        \* the Defs of the output, in order
    ssa_walk,       \* the Ifs the walker is inside, innermost first
    ssa_ifs         \* the Ifs transformed so far

SsaVars == <<ssa_on, ssa_symbols, ssa_scope, ssa_out, ssa_walk, ssa_ifs>>

\* PART 4, the symbol table
VARIABLES
    sym_on,         \* TRUE while the pass of PART 4 is the one modelled, until get_symbols
    sym_counter,    \* ppl_symbol_table._symbol_counter
    sym_symbols,    \* SymbolTableGenerator.symbols
    sym_scope,      \* the bindings of the scopes, innermost first, the global scope last
    sym_bindings,   \* the name bindings met by the walk, in order
    sym_refs        \* the Symbol references met by the walk

SymVars == <<sym_on, sym_counter, sym_symbols, sym_scope, sym_bindings, sym_refs>>

\* PART 5, the optimizer
VARIABLES
    opt_phase,      \* "none" | "input" | "once" | "twice"
    opt_input,      \* the program P
    opt_once,       \* optimize(P)
    opt_twice       \* optimize(optimize(P))

OptVars == <<opt_phase, opt_input, opt_once, opt_twice>>

\* PART 6, successive compilations in one process
VARIABLES
    proc_pipeline,         \* "foppl" | "pyppl" | "none"
    proc_source,           \* the source compiled twice: the names and nodes it makes, in order
    proc_run,              \* number of the compilation in progress, 0 before the first
    proc_pos,              \* index of the next item of the source
    proc_symbol_counter,   \* ppl_symbol_table._symbol_counter, a module global
    proc_node_counter,     \* foppl GraphNode.__symbol_counter__, a class attribute
    proc_factory_counter,  \* GraphFactory._counter of the factory of this compilation
    proc_names             \* the names generated by the first and by the second compilation

ProcVars == <<proc_pipeline, proc_source, proc_run, proc_pos, proc_symbol_counter,
              proc_node_counter, proc_factory_counter, proc_names>>

ProcIdle ==
    /\ proc_pipeline = "none"
    /\ proc_source = <<>>
    /\ proc_run = 0
    /\ proc_pos = 0
    /\ proc_symbol_counter = 0
    /\ proc_node_counter = 0
    /\ proc_factory_counter = 0
    /\ proc_names = <<>>

\* PART 7, single calls of functions that keep no state between calls
VARIABLES
    call_fn,        \* the function that has been called, "none" before the call
    call_args,      \* the arguments of the call
    call_result     \* what the call returned or raised, <<>> before the call

CallVars == <<call_fn, call_args, call_result>>

CallIdle ==
    /\ call_fn = "none"
    /\ call_args = <<>>
    /\ call_result = <<>>

\* PART 8, the lexer
VARIABLES
    lex_source,     \* CharacterStream.source, a sequence of code points
    lex_comment,    \* Lexer.line_comment: 0 for None, or the code point of a one-character marker
    lex_pos,        \* CharacterStream._pos (0-based)
    lex_tokens,     \* the tokens returned so far: <<pos, type, end>>
    lex_error       \* the exception __next__ raised, NoError if none

LexVars == <<lex_source, lex_comment, lex_pos, lex_tokens, lex_error>>

LexIdle ==
    /\ lex_source = <<>>
    /\ lex_comment = 0
    /\ lex_pos = 0
    /\ lex_tokens = <<>>
    /\ lex_error = [type |-> "idle"]

\* PART 11, the unrolling of a While loop
VARIABLES
    while_frame     \* the locals of a running visit_while: scope, result, visits of node.body; <<>> outside the loop

WhileVars == <<while_frame>>

WhileIdle ==
    /\ while_frame = <<>>

vars == <<GraphVars, PdfVars, SsaVars, SymVars, OptVars, ProcVars, CallVars, LexVars, WhileVars>>

NotGraph == <<PdfVars, SsaVars, SymVars, OptVars, ProcVars, CallVars, LexVars, WhileVars>>

NotPdf == <<GraphVars, SsaVars, SymVars, OptVars, ProcVars, CallVars, LexVars, WhileVars>>

NotSsa == <<GraphVars, PdfVars, SymVars, OptVars, ProcVars, CallVars, LexVars, WhileVars>>

NotSym == <<GraphVars, PdfVars, SsaVars, OptVars, ProcVars, CallVars, LexVars, WhileVars>>

NotOpt == <<GraphVars, PdfVars, SsaVars, SymVars, ProcVars, CallVars, LexVars, WhileVars>>

NotProc == <<GraphVars, PdfVars, SsaVars, SymVars, OptVars, CallVars, LexVars, WhileVars>>

NotCall == <<GraphVars, PdfVars, SsaVars, SymVars, OptVars, ProcVars, LexVars, WhileVars>>

NotLex == <<GraphVars, PdfVars, SsaVars, SymVars, OptVars, ProcVars, CallVars, WhileVars>>

NotWhile == <<GraphVars, PdfVars, SsaVars, SymVars, OptVars, ProcVars, CallVars, LexVars>>

\* the state of a part that is not the one modelled
GraphIdle ==
    /\ pipeline = "none"
    /\ symbol_counter = << >>
    /\ nodes = <<>>
    /\ cond_scope = <<>>
    /\ conditions = <<>>
    /\ walk = <<>>
    /\ bindings = {}

PdfIdle ==
    /\ pdf_mode = "none"
    /\ compute_nodes = <<>>
    /\ pdf_phase = "none"
    /\ pdf_pos = 0
    /\ distribution = <<>>
    /\ logpdf_code = <<>>
    /\ sample_code = <<>>
    /\ state = << >>
    /\ dst = ""
    /\ contributions = << >>

SsaIdle ==
    /\ ssa_on = FALSE
    /\ ssa_symbols = << >>
    /\ ssa_scope = <<>>
    /\ ssa_out = <<>>
    /\ ssa_walk = <<>>
    /\ ssa_ifs = <<>>

SymIdle ==
    /\ sym_on = FALSE
    /\ sym_counter = 0
    /\ sym_symbols = <<>>
    /\ sym_scope = <<>>
    /\ sym_bindings = <<>>
    /\ sym_refs = <<>>

OptIdle ==
    /\ opt_phase = "none"
    /\ opt_input = <<>>
    /\ opt_once = <<>>
    /\ opt_twice = <<>>

\* src/foppl/graphs.py:21 and src/pyppl/backend/ppl_graph_factory.py:36
InitialSymbolCounter == 30000

DigitChars == <<"0", "1", "2", "3", "4", "5", "6", "7", "8", "9">>

\* str(n) of a non-negative integer, as the sequence of its characters
RECURSIVE IntToStr(_)
IntToStr(n) ==
    IF n < 10 THEN <<DigitChars[n + 1]>>
    ELSE Append(IntToStr(n \div 10), DigitChars[(n % 10) + 1])

DigitOf == [ c \in Range(DigitChars) |-> CHOOSE d \in 0..9 : DigitChars[d + 1] = c ]

DigitValue(c) == DigitOf[c]

IsDigit(c) == c \in DOMAIN DigitOf

\* Graph.get_ordered_list_of_all_nodes.extract_number: all digits of the name, in order
RECURSIVE ExtractFrom(_, _, _)
ExtractFrom(s, i, result) ==
    IF i > Len(s) THEN result
    ELSE ExtractFrom(s, i + 1, IF IsDigit(s[i]) THEN result * 10 + DigitValue(s[i]) ELSE result)

extract_number(s) == ExtractFrom(s, 1, 0)

Prefix(kind) ==
    CASE kind = "x" -> <<"x">>
      [] kind = "y" -> <<"y">>
      [] kind = "cond" -> <<"c", "o", "n", "d", "_">>
      [] kind = "data" -> <<"d", "a", "t", "a", "_">>

ClassOf(kind) ==
    CASE kind \in {"x", "y"} -> "Vertex"
      [] kind = "cond" -> "ConditionNode"
      [] kind = "data" -> "DataNode"

CounterClasses == {"GraphNode", "Vertex", "ConditionNode", "DataNode"}

\* a plausible slip: `cls.__symbol_counter__ += 1` makes one counter per class
CounterOwnerPerClass(kind) == ClassOf(kind)

\* GraphNode.__gen_symbol__: the counter incremented is that of cls.__base__, i.e. GraphNode
CounterOwner(kind) == "GraphNode"

\* the counters after generating a symbol for a node of `kind`
CountersAfter(kind) ==
    [symbol_counter EXCEPT ![CounterOwner(kind)] = @ + 1]

\* the generated name: prefix followed by the incremented counter
GenSymbol(kind) == Prefix(kind) \o IntToStr(CountersAfter(kind)[CounterOwner(kind)])

IsVertex(k) == nodes[k].kind \in {"x", "y"}

Vertices == { k \in 1..Len(nodes) : IsVertex(k) }

Conds == { k \in 1..Len(nodes) : nodes[k].kind = "cond" }

NewNode(kind, anc, conds) ==
    [ kind |-> kind,
      name |-> GenSymbol(kind),
      ancestors |-> anc,
      conditions |-> conds,
      dependent_conditions |-> {},
      site |-> walk ]

(***************************************************************************)
(* foppl: Compiler (src/foppl/compilers.py) over src/foppl/graphs.py       *)
(***************************************************************************)

\* the vertices of the graph returned for a reference to vertex u:
\* Graph({vertex}).merge(graph), with vertex.ancestors = graph.vertices
GraphOf(u) == {u} \cup nodes[u].ancestors

\* merge(*graphs).vertices for the graphs of the referenced vertices
MergedVertices(S) == UNION { GraphOf(u) : u \in S }

\* ConditionalScope.get_condition
get_condition(c) == <<c.cond_node, c.truth_value>>

\* Compiler.current_conditions: the pairs from the innermost scope outwards
current_conditions == [ i \in 1..Len(cond_scope) |-> get_condition(cond_scope[i]) ]

\* ConditionalScope.invert
Invert(c) == [c EXCEPT !.truth_value = ~ c.truth_value]

\* Vertex.get_all_ancestors
RECURSIVE get_all_ancestors(_)
get_all_ancestors(k) ==
    nodes[k].ancestors \cup UNION { get_all_ancestors(a) : a \in nodes[k].ancestors }

\* a plausible slip: `self.dependent_conditions = {cond}` in place of add
StoreDependentOverwrite(old, c) == {c}

\* Vertex._add_dependent_condition, the update of one vertex's set
StoreDependent(old, c) == old \cup {c}

\* Vertex._add_dependent_condition: the set of vertices reached by the recursion from `a`
RECURSIVE ReachedFrom(_)
ReachedFrom(a) == {a} \cup UNION { ReachedFrom(b) : b \in nodes[a].ancestors }

\* a propagation that records the condition in every node there is
AddDependentToAll(ns, anc, c) ==
    [ k \in 1..Len(ns) |-> [ns[k] EXCEPT !.dependent_conditions = StoreDependent(@, c)] ]

\* ConditionNode.__init__: for a in ancestors: if isinstance(a, Vertex): a._add_dependent_condition(self)
AddDependentCondition(ns, anc, c) ==
    LET reached == UNION { ReachedFrom(a) : a \in { b \in anc : IsVertex(b) } }
    IN  [ k \in 1..Len(ns) |->
            IF k \in reached
            THEN [ns[k] EXCEPT !.dependent_conditions = StoreDependent(@, c)]
            ELSE ns[k] ]

F_Active == pipeline = "foppl" /\ Len(nodes) < MaxNodes

\* Compiler.visit_sample
F_VisitSample(S) ==
    /\ F_Active
    /\ nodes' = Append(nodes, NewNode("x", MergedVertices(S), current_conditions))
    /\ symbol_counter' = CountersAfter("x")
    /\ UNCHANGED <<pipeline, cond_scope, conditions, walk, bindings>>
    /\ UNCHANGED NotGraph

\* Compiler.visit_observe
F_VisitObserve(S) ==
    /\ F_Active
    /\ nodes' = Append(nodes, NewNode("y", MergedVertices(S), current_conditions))
    /\ symbol_counter' = CountersAfter("y")
    /\ UNCHANGED <<pipeline, cond_scope, conditions, walk, bindings>>
    /\ UNCHANGED NotGraph

\* Compiler.visit_value for a list value: a DataNode
F_VisitValue ==
    /\ F_Active
    /\ nodes' = Append(nodes, NewNode("data", {}, <<>>))
    /\ symbol_counter' = CountersAfter("data")
    /\ UNCHANGED <<pipeline, cond_scope, conditions, walk, bindings>>
    /\ UNCHANGED NotGraph

\* Compiler.visit_if up to the then-branch: the test has been walked (its graph
\* holds the vertices S refers to), begin_conditional_scope creates the
\* ConditionalScope and its ConditionNode.  `neg` is TRUE for a test `not c`.
F_BeginConditionalScope(S, neg) ==
    /\ F_Active
    /\ Len(walk) < MaxDepth
    /\ LET anc == MergedVertices(S)
           c == Len(nodes) + 1
           withCond == Append(nodes, NewNode("cond", anc, <<>>))
       IN  /\ nodes' = AddDependentCondition(withCond, anc, c)
           /\ cond_scope' = <<[cond_node |-> c, truth_value |-> ~ neg]>> \o cond_scope
           /\ walk' = <<[cond |-> c, branch |-> "then", neg |-> neg]>> \o walk
    /\ symbol_counter' = CountersAfter("cond")
    /\ UNCHANGED <<pipeline, conditions, bindings>>
    /\ UNCHANGED NotGraph

\* Compiler.visit_if between the branches: invert_conditional_scope
F_InvertConditionalScope ==
    /\ pipeline = "foppl"
    /\ walk # <<>> /\ Head(walk).branch = "then"
    /\ cond_scope' = <<Invert(Head(cond_scope))>> \o Tail(cond_scope)
    /\ walk' = <<[Head(walk) EXCEPT !.branch = "else"]>> \o Tail(walk)
    /\ UNCHANGED <<pipeline, symbol_counter, nodes, conditions, bindings>>
    /\ UNCHANGED NotGraph

\* Compiler.visit_if, finally: end_conditional_scope
F_EndConditionalScope ==
    /\ pipeline = "foppl"
    /\ walk # <<>>
    /\ cond_scope' = Tail(cond_scope)
    /\ walk' = Tail(walk)
    /\ UNCHANGED <<pipeline, symbol_counter, nodes, conditions, bindings>>
    /\ UNCHANGED NotGraph

(***************************************************************************)
(* pyppl: GraphGenerator (src/pyppl/backend/ppl_graph_generator.py) over   *)
(* GraphFactory and src/pyppl/graphs.py.  A visit method returns a pair    *)
(* (expr, parents); a visited result bound by visit_def / visit_let is     *)
(* returned again by visit_symbol.  Expressions are kept as far as a       *)
(* later visit reads them:                                                 *)
(*   value   AstValue                                                      *)
(*   sym     AstSymbol(name, node=nodes[node]), a rewritten symbol         *)
(*   vv      AstValueVector of `len` items                                 *)
(*   vec     AstVector of the leaf expressions `items`                     *)
(*   op      any other expression                                          *)
(***************************************************************************)
Expr(t, node, len, items) == [t |-> t, node |-> node, len |-> len, items |-> items]

ValueExpr == Expr("value", 0, 0, <<>>)
SymExpr(k) == Expr("sym", k, 0, <<>>)
VVExpr(n) == Expr("vv", 0, n, <<>>)
VecExpr(items) == Expr("vec", 0, 0, items)
OpExpr == Expr("op", 0, 0, <<>>)

Result(e, parents) == [expr |-> e, parents |-> parents]

IsLeaf(e) == e.t \in {"value", "sym", "vv"}

\* makeVector (src/pyppl/ppl_ast.py): all items AstValue gives an AstValueVector
makeVector(items) ==
    IF \A i \in 1..Len(items) : items[i].t = "value"
    THEN VVExpr(Len(items))
    ELSE VecExpr(items)

\* is_vector: the node is an AstVector or an AstValueVector
is_vector(e) == e.t \in {"vec", "vv"}

\* GraphGenerator.visit_symbol for a rewritten symbol, whose generated name is
\* not bound in scope: `return node, { node.node }`
visit_symbol(e) == Result(e, {e.node})

\* self.visit(item) for an item of an already visited vector
Revisit(e) ==
    CASE e.t = "sym" -> visit_symbol(e)
      [] e.t = "value" -> Result(e, {})
      [] e.t = "vv" -> Result(e, {})

\* the scope after binding a visited result (visit_def, visit_let: self.define)
Bound(r) ==
    IF r \in bindings \/ Cardinality(bindings) < MaxBindings
    THEN bindings \cup {r}
    ELSE bindings

G_Active == pipeline = "pyppl" /\ Len(nodes) < MaxNodes

G_Stay == pipeline = "pyppl"

\* GraphGenerator.visit_value
G_VisitValue ==
    /\ G_Stay
    /\ bindings' = Bound(Result(ValueExpr, {}))
    /\ UNCHANGED <<pipeline, symbol_counter, nodes, cond_scope, conditions, walk>>
    /\ UNCHANGED NotGraph

\* GraphGenerator.visit_value_vector with GraphFactory.create_data_node
G_VisitValueVector(n) ==
    /\ G_Active
    /\ IF n > 3
       THEN /\ nodes' = Append(nodes, NewNode("data", {}, <<>>))
            /\ symbol_counter' = CountersAfter("data")
            /\ bindings' = Bound(Result(SymExpr(Len(nodes) + 1), {}))
       ELSE /\ bindings' = Bound(Result(VVExpr(n), {}))
            /\ UNCHANGED <<nodes, symbol_counter>>
    /\ UNCHANGED <<pipeline, cond_scope, conditions, walk>>
    /\ UNCHANGED NotGraph

\* the items of the AstVector nodes that are visited: any visited results, or
\* one item that visits to a literal, repeated as `(repeat n value)` builds it
\* (ppl_clojure_parser.py)
VectorItems ==
    [1..MaxVectorLen -> bindings]
        \cup { [i \in 1..MaxRepeat |-> r] : r \in { b \in bindings : b.expr.t = "value" } }

\* GraphGenerator.visit_vector (_visit_items) over the visited items `rs`
G_VisitVector(rs) ==
    /\ G_Stay
    /\ \A i \in 1..Len(rs) : IsLeaf(rs[i].expr)
    /\ bindings' = Bound(Result(makeVector([i \in 1..Len(rs) |-> rs[i].expr]),
                                UNION { rs[i].parents : i \in 1..Len(rs) }))
    /\ UNCHANGED <<pipeline, symbol_counter, nodes, cond_scope, conditions, walk>>
    /\ UNCHANGED NotGraph

\* GraphGenerator.visit_subscript with an integer constant index i (0-based i-1)
G_VisitSubscript(base, i) ==
    /\ G_Stay
    /\ base.expr.t # "vv"
    /\ IF is_vector(base.expr) /\ i \in 1..Len(base.expr.items)
       THEN bindings' = Bound(Revisit(base.expr.items[i]))
       ELSE bindings' = Bound(Result(OpExpr, base.parents \cup {}))
    /\ UNCHANGED <<pipeline, symbol_counter, nodes, cond_scope, conditions, walk>>
    /\ UNCHANGED NotGraph

\* GraphGenerator.visit_binary
G_VisitBinary(r1, r2) ==
    /\ G_Stay
    /\ bindings' = Bound(Result(OpExpr, r1.parents \cup r2.parents))
    /\ UNCHANGED <<pipeline, symbol_counter, nodes, cond_scope, conditions, walk>>
    /\ UNCHANGED NotGraph

\* GraphGenerator.visit_sample with GraphFactory.create_sample_node
G_VisitSample(dist) ==
    /\ G_Active
    /\ nodes' = Append(nodes, NewNode("x", dist.parents, <<>>))
    /\ symbol_counter' = CountersAfter("x")
    /\ bindings' = Bound(Result(SymExpr(Len(nodes) + 1), {Len(nodes) + 1}))
    /\ UNCHANGED <<pipeline, cond_scope, conditions, walk>>
    /\ UNCHANGED NotGraph

\* GraphGenerator.visit_observe with GraphFactory.create_observe_node
G_VisitObserve(dist, value) ==
    /\ G_Active
    /\ nodes' = Append(nodes, NewNode("y", dist.parents \cup value.parents, <<>>))
    /\ symbol_counter' = CountersAfter("y")
    /\ bindings' = Bound(Result(SymExpr(Len(nodes) + 1), {}))
    /\ UNCHANGED <<pipeline, cond_scope, conditions, walk>>
    /\ UNCHANGED NotGraph

\* ConditionScope.switch_branch for a condition that is a ConditionNode (no AstNode)
switch_branch(c) == [c EXCEPT !.truth_value = ~ c.truth_value]

\* GraphGenerator.visit_if up to the then-branch: create_condition_node, create_condition
G_EnterCondition(test) ==
    /\ G_Active
    /\ Len(walk) < MaxDepth
    /\ nodes' = Append(nodes, NewNode("cond", test.parents, <<>>))
    /\ symbol_counter' = CountersAfter("cond")
    /\ conditions' = <<[condition |-> Len(nodes) + 1, truth_value |-> TRUE]>> \o conditions
    /\ walk' = <<[cond |-> Len(nodes) + 1, branch |-> "then", neg |-> FALSE]>> \o walk
    /\ UNCHANGED <<pipeline, cond_scope, bindings>>
    /\ UNCHANGED NotGraph

\* GraphGenerator.visit_if between the branches: switch_condition
G_SwitchCondition ==
    /\ G_Stay
    /\ walk # <<>> /\ Head(walk).branch = "then"
    /\ conditions' = <<switch_branch(Head(conditions))>> \o Tail(conditions)
    /\ walk' = <<[Head(walk) EXCEPT !.branch = "else"]>> \o Tail(walk)
    /\ UNCHANGED <<pipeline, symbol_counter, nodes, cond_scope, bindings>>
    /\ UNCHANGED NotGraph

\* GraphGenerator.visit_if, leaving the with-block: leave_condition
G_LeaveCondition ==
    /\ G_Stay
    /\ walk # <<>> /\ Head(walk).branch = "else"
    /\ conditions' = Tail(conditions)
    /\ walk' = Tail(walk)
    /\ UNCHANGED <<pipeline, symbol_counter, nodes, cond_scope, bindings>>
    /\ UNCHANGED NotGraph

GraphInit ==
    /\ pipeline \in {"foppl", "pyppl"}
    /\ symbol_counter = [ c \in CounterClasses |-> InitialSymbolCounter ]
    /\ nodes = <<>>
    /\ cond_scope = <<>>
    /\ conditions = <<>>
    /\ walk = <<>>
    /\ bindings = {}
    /\ PdfIdle /\ SsaIdle /\ SymIdle /\ OptIdle /\ ProcIdle /\ CallIdle /\ LexIdle /\ WhileIdle

GraphNext ==
    \/ \E S \in SUBSET Vertices : F_VisitSample(S)
    \/ \E S \in SUBSET Vertices : F_VisitObserve(S)
    \/ F_VisitValue
    \/ \E S \in SUBSET Vertices, neg \in BOOLEAN : F_BeginConditionalScope(S, neg)
    \/ F_InvertConditionalScope
    \/ F_EndConditionalScope
    \/ G_VisitValue
    \/ \E n \in 3..4 : G_VisitValueVector(n)
    \/ \E rs \in VectorItems : G_VisitVector(rs)
    \/ \E base \in bindings, i \in 1..2 : G_VisitSubscript(base, i)
    \/ \E r1 \in bindings, r2 \in bindings : G_VisitBinary(r1, r2)
    \/ \E dist \in bindings : G_VisitSample(dist)
    \/ \E dist \in bindings, value \in bindings : G_VisitObserve(dist, value)
    \/ \E test \in bindings : G_EnterCondition(test)
    \/ G_SwitchCondition
    \/ G_LeaveCondition

SpecGraph == GraphInit /\ [][GraphNext]_vars

(***************************************************************************)
(* Graph.get_ordered_list_of_all_nodes (src/foppl/graphs.py): a dict keyed *)
(* by the number in the name, filled from the vertices, then the data,     *)
(* then the conditions, and read out by ascending key.                     *)
(***************************************************************************)
NumberOf(k) == extract_number(nodes[k].name)

FillRank(k) ==
    CASE IsVertex(k) -> 1
      [] nodes[k].kind = "data" -> 2
      [] nodes[k].kind = "cond" -> 3

\* nodes[key] after the three loops: the entry written last under that key
DictEntry(num, key) ==
    CHOOSE k \in 1..Len(nodes) :
        /\ num[k] = key
        /\ \A j \in 1..Len(nodes) : num[j] = key => FillRank(j) <= FillRank(k)

RECURSIVE SortedKeys(_)
SortedKeys(S) ==
    IF S = {} THEN <<>>
    ELSE LET m == CHOOSE x \in S : \A y \in S : x <= y
         IN  <<m>> \o SortedKeys(S \ {m})

get_ordered_list_of_all_nodes(num) ==
    LET keys == SortedKeys({ num[k] : k \in 1..Len(nodes) })
    IN  [ i \in 1..Len(keys) |-> DictEntry(num, keys[i]) ]

(***************************************************************************)
(* C1: ordering all nodes by the integer in their generated name gives     *)
(* back the order of creation, and every node comes strictly after all the *)
(* nodes of its ancestors set, so the arcs form a DAG.                     *)
(***************************************************************************)
C1_NameOrderIsCreationOrder ==
    LET num == [ k \in 1..Len(nodes) |-> NumberOf(k) ]
    IN  /\ get_ordered_list_of_all_nodes(num) = [ i \in 1..Len(nodes) |-> i ]
        /\ \A i, j \in 1..Len(nodes) : i < j => num[i] < num[j]
        /\ \A k \in 1..Len(nodes) : \A a \in nodes[k].ancestors : num[a] < num[k]

C1_Witness ==
    /\ Len(nodes) = MaxNodes
    /\ \E k \in 1..Len(nodes) : nodes[k].kind = "cond" /\ nodes[k].ancestors # {}
    /\ \E k \in 1..Len(nodes) : nodes[k].kind = "data"
    /\ \E k \in 1..Len(nodes) : nodes[k].kind = "y" /\ nodes[k].ancestors # {}

\* the pairs (ConditionNode, truth) of the Ifs enclosing a position of the
\* walker, innermost first: on the then-branch the truth of the test, which is
\* the opposite of the ConditionNode's for a negated test
EnclosingGuards(w) ==
    [ i \in 1..Len(w) |-> <<w[i].cond, (w[i].branch = "then") # w[i].neg>> ]

(***************************************************************************)
(* C2: the guard list of every Vertex is the sequence of the Ifs enclosing *)
(* the Sample/Observe it was created from, one (ConditionNode, truth) pair *)
(* per If with the truth of its branch; the pairs stay as recorded when    *)
(* the scope is inverted or left afterwards.                               *)
(***************************************************************************)
C2_GuardsAreEnclosingIfs ==
    \A k \in Vertices : nodes[k].conditions = EnclosingGuards(nodes[k].site)

C10_AncestorsAreVertices ==
    /\ \A k \in 1..Len(nodes) : nodes[k].ancestors \subseteq Vertices
    /\ \A r \in bindings : r.parents \subseteq Vertices

\* C12: a literal vector of more than 3 elements is hoisted into a DataNode and
\* replaced by a Symbol pointing at it: no visited result is still a value
\* vector of more than 3 elements.
C12_LargeLiteralVectorsAreHoisted ==
    \A r \in bindings : r.expr.t = "vv" => r.expr.len <= 3

(***************************************************************************)
(*                    PART 2: LOG-PDF OF THE MODEL                         *)
(*                                                                         *)
(* Two mechanisms compute the log-pdf over the compute-ordered node list:  *)
(*   "text"    pyppl GraphCodeGenerator.gen_logpdf_code emits lines, which *)
(*             are then executed in order;                                 *)
(*   "update"  foppl Model.gen_pdf calls update_pdf of every node.         *)
(* In the mode "sample" GraphCodeGenerator.gen_sample_code emits the lines *)
(* of the sampling code over the same node list; in the mode "factory"     *)
(* GraphFactory.generate_code emits both codes in one loop.                *)
(* A node of the list is given with the Ifs that enclosed its creation     *)
(* (`site`, pairs <<ConditionNode, truth>>, innermost first) and with the  *)
(* guard list its class stores (`conditions`).                             *)
(***************************************************************************)
MaxPdfNodes == 3

DistCodes == {"Normal(0, 1)", "Gamma(1, 1)"}

\* the walks of a compiler over nested Ifs that create n nodes: the node list
\* and the stack of open Ifs [cond, truth, branch] after them
StackAfter(stack) ==
    LET RECURSIVE Adj(_)
        Adj(st) ==
            {st} \cup
            (IF st = <<>> THEN {}
             ELSE Adj(Tail(st)) \cup
                  (IF Head(st).branch = "then"
                   THEN {<<[Head(st) EXCEPT !.branch = "else", !.truth = ~ @]>> \o Tail(st)}
                   ELSE {}))
    IN  Adj(stack)

SiteOf(stack) == [ i \in 1..Len(stack) |-> <<stack[i].cond, stack[i].truth>> ]

RECURSIVE Walks(_)
Walks(n) ==
    IF n = 0 THEN { [ns |-> <<>>, stack |-> <<>>] }
    ELSE LET prev == Walks(n - 1)
         IN  UNION { UNION { 
                 { [ns |-> Append(w.ns, [kind |-> "vertex", dist_code |-> d, site |-> SiteOf(st)]),
                    stack |-> st] : d \in DistCodes }
                 \cup { [ns |-> Append(w.ns, [kind |-> "data", dist_code |-> "", site |-> SiteOf(st)]),
                         stack |-> st] }
                 \cup (IF Len(st) < MaxDepth
                       THEN { [ns |-> Append(w.ns, [kind |-> "cond", dist_code |-> "", site |-> SiteOf(st)]),
                               stack |-> <<[cond |-> n, truth |-> TRUE, branch |-> "then"]>> \o st] }
                       ELSE {})
                 : st \in StackAfter(w.stack) } : w \in prev }

NodeLists == UNION { { w.ns : w \in Walks(n) } : n \in 1..MaxPdfNodes }

\* the guard list stored on the node: foppl Vertex.conditions is the list of
\* the enclosing Ifs; pyppl Vertex has no such field
StoredConditions(mode, node) ==
    IF mode = "update" /\ node.kind = "vertex" THEN node.site ELSE <<>>

PdfInit ==
    /\ pdf_mode \in {"text", "update", "sample", "factory"}
    /\ \E ns \in NodeLists, observed \in SUBSET (1..MaxPdfNodes) :
         compute_nodes = [ i \in 1..Len(ns) |->
            [ kind |-> ns[i].kind, dist_code |-> ns[i].dist_code, site |-> ns[i].site,
              conditions |-> StoredConditions(pdf_mode, ns[i]),
              has_observation |-> pdf_mode = "sample" /\ ns[i].kind = "vertex" /\ i \in observed ] ]
    /\ pdf_phase = IF pdf_mode \in {"text", "sample", "factory"} THEN "gen" ELSE "run"
    /\ pdf_pos = 1
    /\ distribution = <<>>
    /\ logpdf_code = <<>>
    /\ sample_code = <<>>
    /\ state = << >>
    /\ dst = ""
    /\ contributions = << >>
    /\ GraphIdle /\ SsaIdle /\ SymIdle /\ OptIdle /\ ProcIdle /\ CallIdle /\ LexIdle /\ WhileIdle

\* the mapping m with key k set to v (a dict assignment)
Put(m, k, v) == [ x \in DOMAIN m \cup {k} |-> IF x = k THEN v ELSE m[x] ]

Line(op, node, text) == [op |-> op, node |-> node, text |-> text]

\* `if code != distribution` of both generators: the line `dst_ = ...` is
\* left out when it is the binding emitted last
SharesBinding(code, last) == code = last

\* GraphCodeGenerator.gen_logpdf_code, one iteration of `for node in self.nodes`
P_GenLogpdfCode ==
    /\ pdf_mode = "text" /\ pdf_phase = "gen"
    /\ LET node == compute_nodes[pdf_pos]
           code == <<"dst_ = ", node.dist_code>>
       IN  CASE node.kind = "vertex" ->
                  /\ logpdf_code' = logpdf_code
                        \o (IF ~ SharesBinding(code, distribution)
                            THEN <<Line("dst", pdf_pos, code)>> ELSE <<>>)
                        \o <<Line("add", pdf_pos, <<"dst_">>)>>
                  /\ distribution' = IF ~ SharesBinding(code, distribution) THEN code ELSE distribution
             [] node.kind = "data" ->
                  UNCHANGED <<logpdf_code, distribution>>
             [] OTHER ->
                  /\ logpdf_code' = Append(logpdf_code, Line("assign", pdf_pos, <<>>))
                  /\ UNCHANGED distribution
    /\ IF pdf_pos = Len(compute_nodes)
       THEN pdf_phase' = "run" /\ pdf_pos' = 1
       ELSE pdf_phase' = "gen" /\ pdf_pos' = pdf_pos + 1
    /\ UNCHANGED <<pdf_mode, compute_nodes, sample_code, state, dst, contributions>>
    /\ UNCHANGED NotPdf

\* GraphCodeGenerator.gen_sample_code, one iteration of `for node in self.nodes`;
\* the line of a sampled vertex is `name = dst_.sample()` or
\* `name = dst_.sample(sample_size=n)`
P_GenSampleCode ==
    /\ pdf_mode = "sample" /\ pdf_phase = "gen"
    /\ LET node == compute_nodes[pdf_pos]
           code == <<"dst_ = ", node.dist_code>>
       IN  CASE node.kind = "vertex" /\ node.has_observation ->
                  /\ sample_code' = Append(sample_code, Line("observation", pdf_pos, <<>>))
                  /\ UNCHANGED distribution
             [] node.kind = "vertex" /\ ~ node.has_observation ->
                  /\ sample_code' = sample_code
                        \o (IF ~ SharesBinding(code, distribution)
                            THEN <<Line("dst", pdf_pos, code)>> ELSE <<>>)
                        \o <<Line("sample", pdf_pos, <<"dst_">>)>>
                  /\ distribution' = IF ~ SharesBinding(code, distribution) THEN code ELSE distribution
             [] OTHER ->
                  /\ sample_code' = Append(sample_code, Line("assign", pdf_pos, <<>>))
                  /\ UNCHANGED distribution
    /\ IF pdf_pos = Len(compute_nodes)
       THEN pdf_phase' = "done" /\ pdf_pos' = 1
       ELSE pdf_phase' = "gen" /\ pdf_pos' = pdf_pos + 1
    /\ UNCHANGED <<pdf_mode, compute_nodes, logpdf_code, state, dst, contributions>>
    /\ UNCHANGED NotPdf

\* GraphFactory.generate_code, one iteration of `for node in self.nodes`
P_GenerateCode ==
    /\ pdf_mode = "factory" /\ pdf_phase = "gen"
    /\ LET node == compute_nodes[pdf_pos]
           code == <<"dst_ = ", node.dist_code>>
           binding == IF ~ SharesBinding(code, distribution)
                      THEN <<Line("dst", pdf_pos, code)>> ELSE <<>>
       IN  IF node.kind = "vertex"
           THEN /\ logpdf_code' = logpdf_code \o binding \o <<Line("add", pdf_pos, <<"_dst_">>)>>
                /\ sample_code' = sample_code \o binding \o <<Line("sample", pdf_pos, <<"dst_">>)>>
                /\ distribution' = IF ~ SharesBinding(code, distribution) THEN code ELSE distribution
           ELSE /\ logpdf_code' = Append(logpdf_code, Line("assign", pdf_pos, <<>>))
                /\ sample_code' = Append(sample_code, Line("assign", pdf_pos, <<>>))
                /\ UNCHANGED distribution
    /\ IF pdf_pos = Len(compute_nodes)
       THEN pdf_phase' = "done" /\ pdf_pos' = 1
       ELSE pdf_phase' = "gen" /\ pdf_pos' = pdf_pos + 1
    /\ UNCHANGED <<pdf_mode, compute_nodes, state, dst, contributions>>
    /\ UNCHANGED NotPdf

\* execution of the next line of the emitted log-pdf text:
\*   dst_ = <dist>  |  log_pdf += dst_.log_pdf(state['name'])  |  state['name'] = <code>
P_ExecLine ==
    /\ pdf_mode = "text" /\ pdf_phase = "run"
    /\ pdf_pos <= Len(logpdf_code)
    /\ LET line == logpdf_code[pdf_pos]
       IN  CASE line.op = "dst" ->
                  /\ dst' = line.text[2]
                  /\ UNCHANGED <<state, contributions>>
             [] line.op = "add" ->
                  /\ contributions' = Put(contributions, line.node, dst)
                  /\ UNCHANGED <<state, dst>>
             [] line.op = "assign" ->
                  /\ \E b \in BOOLEAN : state' = Put(state, line.node, b)
                  /\ UNCHANGED <<dst, contributions>>
    /\ pdf_pos' = pdf_pos + 1
    /\ UNCHANGED <<pdf_mode, compute_nodes, pdf_phase, distribution, logpdf_code, sample_code>>
    /\ UNCHANGED NotPdf

\* Vertex.update_pdf: `for cond, truth_value in self.conditions:
\*                        if state[cond.name] != truth_value: return 0.0`
PassesConditions(node) ==
    \A i \in 1..Len(node.conditions) : state[node.conditions[i][1]] = node.conditions[i][2]

\* Model.gen_pdf, one iteration of `for node in self.compute_nodes: node.update_pdf(state)`
P_UpdatePdf ==
    /\ pdf_mode = "update" /\ pdf_phase = "run"
    /\ pdf_pos <= Len(compute_nodes)
    /\ LET node == compute_nodes[pdf_pos]
       IN  CASE node.kind = "vertex" ->
                  /\ contributions' =
                        IF PassesConditions(node)
                        THEN Put(contributions, pdf_pos, node.dist_code)
                        ELSE contributions
                  /\ UNCHANGED state
             [] node.kind = "cond" ->
                  /\ \E b \in BOOLEAN : state' = Put(state, pdf_pos, b)
                  /\ UNCHANGED contributions
             [] node.kind = "data" ->
                  /\ state' = Put(state, pdf_pos, "data")
                  /\ UNCHANGED contributions
    /\ pdf_pos' = pdf_pos + 1
    /\ UNCHANGED <<pdf_mode, compute_nodes, pdf_phase, distribution, logpdf_code, sample_code, dst>>
    /\ UNCHANGED NotPdf

PdfNext ==
    \/ P_GenLogpdfCode
    \/ P_GenSampleCode
    \/ P_GenerateCode
    \/ P_ExecLine
    \/ P_UpdatePdf

SpecPdf == PdfInit /\ [][PdfNext]_vars

(***************************************************************************)
(* C3: the log-pdf contribution of a Vertex is added only if every guard   *)
(* (c, t) of the vertex has state[c] = t, in the emitted log-pdf text as   *)
(* in Vertex.update_pdf.                                                   *)
(***************************************************************************)
C3_ContributionIsGated ==
    \A v \in DOMAIN contributions :
        \A i \in 1..Len(compute_nodes[v].site) :
            state[compute_nodes[v].site[i][1]] = compute_nodes[v].site[i][2]

\* the text of the binding `dst_ = ...` in force at line j of a code sequence:
\* that of the closest line before j that assigns dst_, <<>> if there is none
RECURSIVE BindingAt(_, _)
BindingAt(lines, j) ==
    IF j <= 1 THEN <<>>
    ELSE IF lines[j - 1].op = "dst" THEN lines[j - 1].text
    ELSE BindingAt(lines, j - 1)

\* the lines of a code sequence that read the distribution of a Vertex
ReadsDistribution(line) == line.op \in {"add", "sample"}

\* C24: in the emitted log-pdf code and sampling code, every line that reads
\* the distribution of a Vertex reads the variable dst_, it is preceded by a
\* binding `dst_ = ...`, and the closest one carries the distribution text of
\* that Vertex; so a binding is left out only when the binding emitted last
\* has the same text.
C24_DstCarriesTheVertexDistribution ==
    \A lines \in {logpdf_code, sample_code} :
        \A j \in 1..Len(lines) :
            ReadsDistribution(lines[j])
                => /\ lines[j].text = <<"dst_">>
                   /\ BindingAt(lines, j) = <<"dst_ = ", compute_nodes[lines[j].node].dist_code>>

(***************************************************************************)
(*              PART 3: STATIC SINGLE ASSIGNMENT                           *)
(*                                                                         *)
(* StaticAssignments (src/pyppl/transforms/ppl_static_assignments.py)      *)
(* walking a body of Defs and Ifs whose tests are Symbols.  A name is the  *)
(* sequence of its characters.                                             *)
(***************************************************************************)
MaxSsaDefs == 4

MaxIfs == 2

SsaNames == { <<"x">>, <<"x", "2">> }

DefKinds == {"value", "sample", "observe", "function"}

\* Symbol.get_current_instance
get_current_instance(name, counter) ==
    IF counter = 1 THEN name ELSE name \o IntToStr(counter)

\* StaticAssignments.new_symbol_instance: the symbols, the scopes and the instance name after it
new_symbol_instance(symbols, scope, name) ==
    LET counter == (IF name \in DOMAIN symbols THEN symbols[name] ELSE 0) + 1
        result == get_current_instance(name, counter)
    IN  [ symbols |-> Put(symbols, name, counter),
          scope |-> <<Put(Head(scope), name, result)>> \o Tail(scope),
          instance |-> result ]

\* SymbolScope.has_current_symbol, from the innermost scope outwards
has_symbol(scope, name) == \E k \in 1..Len(scope) : name \in DOMAIN scope[k]

\* SymbolScope.get_current_symbol, from the innermost scope outwards
access_symbol(scope, name) ==
    IF has_symbol(scope, name)
    THEN scope[CHOOSE k \in 1..Len(scope) :
                  /\ name \in DOMAIN scope[k]
                  /\ \A j \in 1..(k - 1) : name \notin DOMAIN scope[j]][name]
    ELSE name

OutDef(name, source, isPhi, left, right) ==
    [name |-> name, source |-> source, phi |-> isPhi, left |-> left, right |-> right]

\* the names assigned in the branches of the open Ifs, after a Def of `name`
NoteAssigned(w, S) == [ k \in 1..Len(w) |-> [w[k] EXCEPT !.assigned = @ \cup S] ]

\* StaticAssignments.visit_def for a Def whose value needs no prefix
S_VisitDef(name, kind) ==
    /\ ssa_on
    /\ Len(ssa_out) < MaxSsaDefs
    /\ CASE kind = "sample" ->
              \* `return node`: the Def stays as it is
              /\ ssa_out' = Append(ssa_out, OutDef(name, name, FALSE, <<>>, <<>>))
              /\ ssa_walk' = NoteAssigned(ssa_walk, {name})
              /\ UNCHANGED <<ssa_symbols, ssa_scope>>
         [] kind = "observe" ->
              \* `return self.visit(node.value)`: the Observe without the Def
              UNCHANGED <<ssa_out, ssa_walk, ssa_symbols, ssa_scope>>
         [] kind = "function" ->
              \* `return AstBody([])`
              UNCHANGED <<ssa_out, ssa_walk, ssa_symbols, ssa_scope>>
         [] kind = "value" ->
              LET r == new_symbol_instance(ssa_symbols, ssa_scope, name)
              IN  /\ ssa_out' = Append(ssa_out, OutDef(r.instance, name, FALSE, <<>>, <<>>))
                  /\ ssa_symbols' = r.symbols
                  /\ ssa_scope' = r.scope
                  /\ ssa_walk' = NoteAssigned(ssa_walk, {name})
    /\ UNCHANGED <<ssa_on, ssa_ifs>>
    /\ UNCHANGED NotSsa

\* StaticAssignments.visit_if up to the then-branch: visit_in_scope begins a scope
S_EnterIf ==
    /\ ssa_on
    /\ Len(ssa_walk) < MaxDepth
    /\ Len(ssa_walk) + Len(ssa_ifs) < MaxIfs
    /\ ssa_scope' = << << >> >> \o ssa_scope
    /\ ssa_walk' = <<[branch |-> "then", if_symbols |-> << >>, assigned |-> {}]>> \o ssa_walk
    /\ UNCHANGED <<ssa_on, ssa_symbols, ssa_out, ssa_ifs>>
    /\ UNCHANGED NotSsa

\* StaticAssignments.visit_if between the branches: end_scope of the
\* then-branch, begin_scope of the else-branch
S_SwitchBranch ==
    /\ ssa_on
    /\ ssa_walk # <<>> /\ Head(ssa_walk).branch = "then"
    /\ ssa_walk' = <<[Head(ssa_walk) EXCEPT !.branch = "else", !.if_symbols = Head(ssa_scope)]>>
                      \o Tail(ssa_walk)
    /\ ssa_scope' = << << >> >> \o Tail(ssa_scope)
    /\ UNCHANGED <<ssa_on, ssa_symbols, ssa_out, ssa_ifs>>
    /\ UNCHANGED NotSsa

\* StaticAssignments.visit_if, `for key in keys`: the phi-Defs appended to the result
RECURSIVE PhiDefs(_, _, _, _, _)
PhiDefs(keys, if_symbols, else_symbols, symbols, scope) ==
    IF keys = {} THEN [symbols |-> symbols, scope |-> scope, defs |-> <<>>]
    ELSE LET key == CHOOSE k \in keys : TRUE
             inIf == key \in DOMAIN if_symbols
             inElse == key \in DOMAIN else_symbols
             skip == ~ (inIf /\ inElse) /\ ~ has_symbol(scope, key)
             r == new_symbol_instance(symbols, scope, key)
             \* the arguments of phi(...) are evaluated from left to right:
             \* access_symbol runs after new_symbol_instance
             left == IF inIf THEN if_symbols[key] ELSE access_symbol(r.scope, key)
             right == IF inElse THEN else_symbols[key] ELSE access_symbol(r.scope, key)
             rest == IF skip
                     THEN PhiDefs(keys \ {key}, if_symbols, else_symbols, symbols, scope)
                     ELSE PhiDefs(keys \ {key}, if_symbols, else_symbols, r.symbols, r.scope)
         IN  IF skip THEN rest
             ELSE [rest EXCEPT !.defs = <<OutDef(r.instance, key, TRUE, left, right)>> \o @]

\* StaticAssignments.visit_if after the else-branch: end_scope and the phi-Defs
S_LeaveIf ==
    /\ ssa_on
    /\ ssa_walk # <<>> /\ Head(ssa_walk).branch = "else"
    /\ LET if_symbols == Head(ssa_walk).if_symbols
           else_symbols == Head(ssa_scope)
           keys == DOMAIN if_symbols \cup DOMAIN else_symbols
           r == PhiDefs(keys, if_symbols, else_symbols, ssa_symbols, Tail(ssa_scope))
           phis == { r.defs[k].source : k \in 1..Len(r.defs) }
       IN  /\ ssa_out' = ssa_out \o r.defs
           /\ ssa_symbols' = r.symbols
           /\ ssa_scope' = r.scope
           /\ ssa_ifs' = Append(ssa_ifs, [assigned |-> Head(ssa_walk).assigned, phis |-> phis])
           /\ ssa_walk' = NoteAssigned(Tail(ssa_walk), Head(ssa_walk).assigned)
    /\ UNCHANGED ssa_on
    /\ UNCHANGED NotSsa

SsaInit ==
    /\ ssa_on = TRUE
    /\ ssa_symbols = << >>
    /\ ssa_scope = << << >> >>
    /\ ssa_out = <<>>
    /\ ssa_walk = <<>>
    /\ ssa_ifs = <<>>
    /\ GraphIdle /\ PdfIdle /\ SymIdle /\ OptIdle /\ ProcIdle /\ CallIdle /\ LexIdle /\ WhileIdle

SsaNext ==
    \/ \E name \in SsaNames, kind \in DefKinds : S_VisitDef(name, kind)
    \/ S_EnterIf
    \/ S_SwitchBranch
    \/ S_LeaveIf

SpecSsa == SsaInit /\ [][SsaNext]_vars

(***************************************************************************)
(* C5: in the output of the SSA pass every name is the target of exactly   *)
(* one Def.                                                                *)
(***************************************************************************)
C5_DefTargetsUnique ==
    \A i, j \in 1..Len(ssa_out) : i < j => ssa_out[i].name # ssa_out[j].name

(***************************************************************************)
(* C6: the phi-Defs appended after an If cover exactly the names assigned  *)
(* in at least one of its two branches.                                    *)
(***************************************************************************)
C6_PhiDefsCoverAssigned ==
    \A k \in 1..Len(ssa_ifs) : ssa_ifs[k].phis = ssa_ifs[k].assigned

\* C18: the arms of a phi-Def x_n = if test then a else b are versions of x
\* defined before it (the last one of a branch, or the one current before the
\* If for a branch that does not assign x), never its own target x_n.
C18_PhiArmsAreEarlierVersions ==
    \A k \in 1..Len(ssa_out) :
        ssa_out[k].phi =>
            /\ ssa_out[k].left # ssa_out[k].name
            /\ ssa_out[k].right # ssa_out[k].name

(***************************************************************************)
(*                    PART 4: SYMBOL TABLE                                 *)
(*                                                                         *)
(* SymbolTableGenerator (src/pyppl/ppl_symbol_table.py).  A symbol is      *)
(* referred to by its index in `sym_symbols`.  A scope holds `bindings`    *)
(* (Scope.bindings: name -> symbol) and, for the statement of properties,  *)
(* `lexical`: name -> the binding of that name made in this scope, as an   *)
(* index into `sym_bindings`.                                              *)
(***************************************************************************)
MaxSymScopes == 3

MaxSymBindings == 3

MaxSymRefs == 2

MaxModify == 2

SymNames == {"x", "y"}

FirstSymbolCounter == 1000

\* Symbol.__init__: full_name = "{}__sym_{}__".format(name, _symbol_counter)
full_name(name, counter) == <<name, "__sym_">> \o IntToStr(counter) \o <<"__">>

\* Symbol.__init__
NewSymbol(name, read_only, missing) ==
    [ name |-> name,
      usage_count |-> 0,
      modify_count |-> IF missing THEN -1 ELSE 0,
      read_only |-> read_only,
      full_name |-> full_name(name, sym_counter) ]

EmptyScope == [bindings |-> << >>, lexical |-> << >>]

\* Scope.resolve along the chain of scopes: the symbol, 0 for None
ResolveIn(scope, name) ==
    IF \E k \in 1..Len(scope) : name \in DOMAIN scope[k].bindings
    THEN scope[CHOOSE k \in 1..Len(scope) :
                  /\ name \in DOMAIN scope[k].bindings
                  /\ \A j \in 1..(k - 1) : name \notin DOMAIN scope[j].bindings].bindings[name]
    ELSE 0

\* the binding of `name` that is in scope, 0 for a free name
LexicalIn(scope, name) ==
    IF \E k \in 1..Len(scope) : name \in DOMAIN scope[k].lexical
    THEN scope[CHOOSE k \in 1..Len(scope) :
                  /\ name \in DOMAIN scope[k].lexical
                  /\ \A j \in 1..(k - 1) : name \notin DOMAIN scope[j].lexical].lexical[name]
    ELSE 0

\* SymbolTableGenerator.l_def: `symbol = self.resolve(name)`
LDefLookup(scope, name) == ResolveIn(scope, name)

\* SymbolTableGenerator.l_def in the scopes `scope`; `construct` is the
\* binding construct, "" for an assignment to a name already bound
l_def(scope, name, read_only, construct) ==
    LET symbol == LDefLookup(scope, name)
        created == symbol = 0
        sym == IF created THEN Len(sym_symbols) + 1 ELSE symbol
        isBinding == construct # "" \/ created
        bound == IF isBinding
                 THEN Append(sym_bindings,
                             [construct |-> IF construct = "" THEN "def" ELSE construct,
                              name |-> name, symbol |-> sym])
                 ELSE sym_bindings
        top == [ bindings |-> IF created THEN Put(Head(scope).bindings, name, sym)
                                         ELSE Head(scope).bindings,
                 lexical |-> IF isBinding THEN Put(Head(scope).lexical, name, Len(bound))
                                          ELSE Head(scope).lexical ]
    IN  /\ sym_symbols' =
              IF created
              THEN Append(sym_symbols, NewSymbol(name, read_only, FALSE))
              ELSE [sym_symbols EXCEPT ![symbol].modify_count = @ + 1]
        /\ sym_counter' = IF created THEN sym_counter + 1 ELSE sym_counter
        /\ sym_scope' = <<top>> \o Tail(scope)
        /\ sym_bindings' = bound

CanBind(name) ==
    /\ sym_on
    /\ Len(sym_scope) < MaxSymScopes
    /\ Len(sym_bindings) < MaxSymBindings
    /\ \A k \in 1..Len(sym_symbols) : sym_symbols[k].modify_count < MaxModify

\* SymbolTableGenerator.visit_let after the source: create_scope, l_def(read_only=True)
Y_VisitLet(name) ==
    /\ CanBind(name)
    /\ l_def(<<EmptyScope>> \o sym_scope, name, TRUE, "let")
    /\ UNCHANGED <<sym_on, sym_refs>>
    /\ UNCHANGED NotSym

\* SymbolTableGenerator.visit_for after the source: create_scope, l_def(read_only=True)
Y_VisitFor(name) ==
    /\ CanBind(name)
    /\ l_def(<<EmptyScope>> \o sym_scope, name, TRUE, "for")
    /\ UNCHANGED <<sym_on, sym_refs>>
    /\ UNCHANGED NotSym

\* SymbolTableGenerator.visit_list_for after the source: create_scope, l_def(read_only=True)
Y_VisitListFor(name) ==
    /\ CanBind(name)
    /\ l_def(<<EmptyScope>> \o sym_scope, name, TRUE, "list_for")
    /\ UNCHANGED <<sym_on, sym_refs>>
    /\ UNCHANGED NotSym

\* SymbolTableGenerator.visit_function of a function of one parameter: create_scope, l_def(param)
Y_VisitFunction(param) ==
    /\ CanBind(param)
    /\ l_def(<<EmptyScope>> \o sym_scope, param, FALSE, "param")
    /\ UNCHANGED <<sym_on, sym_refs>>
    /\ UNCHANGED NotSym

\* the end of the `with self.create_scope()` block of a Let, For, ListFor or Function
Y_LeaveScope ==
    /\ sym_on
    /\ Len(sym_scope) > 1
    /\ sym_scope' = Tail(sym_scope)
    /\ UNCHANGED <<sym_on, sym_counter, sym_symbols, sym_bindings, sym_refs>>
    /\ UNCHANGED NotSym

\* SymbolTableGenerator.visit_def after the value; a Def of a read-only name
\* raises TypeError, which ends the walk.  g_def looks the name up in the
\* global scope, l_def along the chain; in the global scope they coincide.
Y_VisitDef(name) ==
    /\ sym_on
    /\ Len(sym_bindings) < MaxSymBindings
    /\ \A k \in 1..Len(sym_symbols) : sym_symbols[k].modify_count < MaxModify
    /\ LET sym == ResolveIn(sym_scope, name)
       IN  ~ (sym # 0 /\ sym_symbols[sym].read_only)
    /\ l_def(sym_scope, name, FALSE, "")
    /\ UNCHANGED <<sym_on, sym_refs>>
    /\ UNCHANGED NotSym

\* SymbolTableGenerator.visit_symbol with use_symbol
Y_VisitSymbol(name) ==
    /\ sym_on
    /\ Len(sym_refs) < MaxSymRefs
    /\ LET symbol == ResolveIn(sym_scope, name)
           missing == symbol = 0
           sym == IF missing THEN Len(sym_symbols) + 1 ELSE symbol
           table == IF missing
                    THEN Append(sym_symbols, NewSymbol(name, FALSE, TRUE))
                    ELSE sym_symbols
           n == Len(sym_scope)
       IN  /\ sym_symbols' = [table EXCEPT ![sym].usage_count = @ + 1]
           /\ sym_counter' = IF missing THEN sym_counter + 1 ELSE sym_counter
           /\ sym_scope' =
                 IF missing
                 THEN [sym_scope EXCEPT ![n].bindings = Put(@, name, sym)]
                 ELSE sym_scope
           /\ sym_refs' = Append(sym_refs,
                 [ original_name |-> name, symbol |-> sym, name |-> table[sym].full_name,
                   binding |-> LexicalIn(sym_scope, name) ])
    /\ UNCHANGED <<sym_on, sym_bindings>>
    /\ UNCHANGED NotSym

\* SymbolTableGenerator.get_symbols, called by parse after the walk
Y_GetSymbols ==
    /\ sym_on
    /\ Len(sym_scope) = 1
    /\ sym_symbols' = [ k \in 1..Len(sym_symbols) |->
                          IF sym_symbols[k].modify_count = 0
                          THEN [sym_symbols[k] EXCEPT !.read_only = TRUE]
                          ELSE sym_symbols[k] ]
    /\ sym_on' = FALSE
    /\ UNCHANGED <<sym_counter, sym_scope, sym_bindings, sym_refs>>
    /\ UNCHANGED NotSym

SymInit ==
    /\ sym_on = TRUE
    /\ sym_counter = FirstSymbolCounter
    /\ sym_symbols = <<>>
    /\ sym_scope = <<EmptyScope>>
    /\ sym_bindings = <<>>
    /\ sym_refs = <<>>
    /\ GraphIdle /\ PdfIdle /\ SsaIdle /\ OptIdle /\ ProcIdle /\ CallIdle /\ LexIdle /\ WhileIdle

SymNext ==
    \/ \E name \in SymNames : Y_VisitLet(name)
    \/ \E name \in SymNames : Y_VisitFor(name)
    \/ \E name \in SymNames : Y_VisitListFor(name)
    \/ \E name \in SymNames : Y_VisitFunction(name)
    \/ Y_LeaveScope
    \/ \E name \in SymNames : Y_VisitDef(name)
    \/ \E name \in SymNames : Y_VisitSymbol(name)
    \/ Y_GetSymbols

SpecSym == SymInit /\ [][SymNext]_vars

(***************************************************************************)
(* C7: no two distinct bindings share a Symbol record or a mangled name,   *)
(* and every Symbol reference carries the mangled name of the binding in   *)
(* scope at the reference.                                                 *)
(***************************************************************************)
C7_BindingsHaveOwnSymbol ==
    /\ \A i, j \in 1..Len(sym_bindings) :
          i < j =>
            /\ sym_bindings[i].symbol # sym_bindings[j].symbol
            /\ sym_symbols[sym_bindings[i].symbol].full_name
                  # sym_symbols[sym_bindings[j].symbol].full_name
    /\ \A r \in 1..Len(sym_refs) :
          sym_refs[r].binding # 0 =>
            sym_refs[r].name = sym_symbols[sym_bindings[sym_refs[r].binding].symbol].full_name

\* C15: rebinding a read-only name fails and leaves its symbol alone: the
\* modify count of a read-only symbol (the target of a Let, For or ListFor) is
\* never incremented, by a Def or by any other path.
C15_ReadOnlyIsNeverModified ==
    \A k \in 1..Len(sym_symbols) :
        sym_symbols[k].read_only => sym_symbols[k].modify_count = 0

\* C27: after the pass, when get_symbols has run, every symbol with a modify
\* count of at most 1 is read-only and every symbol with a larger modify
\* count is not.
C27_ReadOnlyIffModifiedAtMostOnce ==
    ~ sym_on =>
        \A k \in 1..Len(sym_symbols) :
            sym_symbols[k].read_only <=> sym_symbols[k].modify_count <= 1

(***************************************************************************)
(*                    PART 5: OPTIMIZER                                    *)
(*                                                                         *)
(* Optimizer (src/pyppl/ppl_optimizers.py) with NodeInfo / InfoAnnotator   *)
(* (src/pyppl/ppl_ast_annotators.py) on programs with integer constants    *)
(* and the operators + - * <<.  AST nodes are tagged tuples:               *)
(*   <<"value", n>>  <<"symbol", name>>  <<"binary", left, op, right>>     *)
(*   <<"unary", op, item>>  <<"sample", dist>>  <<"def", name, value>>     *)
(*   <<"let", target, source, body>>  <<"body", items>>                    *)
(***************************************************************************)
AstValue(n) == <<"value", n>>

AstSymbol(name) == <<"symbol", name>>

AstBinary(left, op, right) == <<"binary", left, op, right>>

AstUnary(op, item) == <<"unary", op, item>>

AstSample(dist) == <<"sample", dist>>

AstDef(name, value) == <<"def", name, value>>

AstLet(target, source, body) == <<"let", target, source, body>>

is_number(e) == e[1] = "value"

is_symbol(e) == e[1] = "symbol"

IsBinary(e) == e[1] = "binary"

IsUnary(e) == e[1] = "unary"

IsBody(e) == e[1] = "body"

\* a constructor that stores the items as they are given
KeepItems(items) == items

\* AstBody.__init__: nested bodies are flattened one level
RECURSIVE FlattenItems(_)
FlattenItems(items) ==
    IF items = <<>> THEN <<>>
    ELSE (IF IsBody(Head(items)) THEN Head(items)[2] ELSE <<Head(items)>>)
            \o FlattenItems(Tail(items))

AstBody(items) == <<"body", FlattenItems(items)>>

RECURSIVE Pow2(_)
Pow2(k) == IF k = 0 THEN 1 ELSE 2 * Pow2(k - 1)

\* AstBinary.op_function for the operators of the model
op_function(op, a, b) ==
    CASE op = "+" -> a + b
      [] op = "-" -> a - b
      [] op = "*" -> a * b
      [] op = "<<" -> a * Pow2(b)

\* InfoAnnotator: NodeInfo.is_expr of a node
RECURSIVE InfoIsExpr(_)
InfoIsExpr(e) ==
    CASE e[1] \in {"value", "symbol"} -> TRUE
      [] e[1] = "binary" -> InfoIsExpr(e[2]) /\ InfoIsExpr(e[4])
      [] e[1] = "unary" -> InfoIsExpr(e[3])
      [] OTHER -> FALSE

\* InfoAnnotator: NodeInfo.has_sample of a node
RECURSIVE InfoHasSample(_)
InfoHasSample(e) ==
    CASE e[1] \in {"value", "symbol"} -> FALSE
      [] e[1] = "binary" -> InfoHasSample(e[2]) \/ InfoHasSample(e[4])
      [] e[1] = "unary" -> InfoHasSample(e[3])
      [] e[1] = "sample" -> TRUE
      [] e[1] = "def" -> InfoHasSample(e[3])
      [] e[1] = "let" -> InfoHasSample(e[3]) \/ InfoHasSample(e[4])
      [] e[1] = "body" -> \E k \in 1..Len(e[2]) : InfoHasSample(e[2][k])

\* InfoAnnotator: NodeInfo.free_vars of a node
RECURSIVE InfoFreeVars(_)
InfoFreeVars(e) ==
    CASE e[1] = "value" -> {}
      [] e[1] = "symbol" -> {e[2]}
      [] e[1] = "binary" -> InfoFreeVars(e[2]) \cup InfoFreeVars(e[4])
      [] e[1] = "unary" -> InfoFreeVars(e[3])
      [] e[1] = "sample" -> InfoFreeVars(e[2])
      [] e[1] = "def" -> InfoFreeVars(e[3])
      [] e[1] = "let" -> (InfoFreeVars(e[4]) \ {e[2]}) \cup InfoFreeVars(e[3])
      [] e[1] = "body" -> UNION { InfoFreeVars(e[2][k]) : k \in 1..Len(e[2]) }

\* InfoAnnotator: NodeInfo.changed_vars of a node is not empty; visit_let takes
\* bind_var, which sets changed_vars to the free variables without the target
RECURSIVE InfoHasChangedVars(_)
InfoHasChangedVars(e) ==
    CASE e[1] \in {"value", "symbol"} -> FALSE
      [] e[1] = "binary" -> InfoHasChangedVars(e[2]) \/ InfoHasChangedVars(e[4])
      [] e[1] = "unary" -> InfoHasChangedVars(e[3])
      [] e[1] = "sample" -> InfoHasChangedVars(e[2])
      [] e[1] = "def" -> TRUE
      [] e[1] = "let" -> (InfoFreeVars(e[4]) \ {e[2]}) # {} \/ InfoHasChangedVars(e[3])
      [] e[1] = "body" -> \E k \in 1..Len(e[2]) : InfoHasChangedVars(e[2][k])

\* NodeInfo.can_embed (the programs of the model have no Observe, Return or side-effect call)
can_embed(e) == InfoIsExpr(e) /\ ~ (InfoHasSample(e) \/ InfoHasChangedVars(e))

\* count_variable_usage (VarCountVisitor)
RECURSIVE count_variable_usage(_, _)
count_variable_usage(name, e) ==
    CASE e[1] = "value" -> 0
      [] e[1] = "symbol" -> IF e[2] = name THEN 1 ELSE 0
      [] e[1] = "binary" -> count_variable_usage(name, e[2]) + count_variable_usage(name, e[4])
      [] e[1] = "unary" -> count_variable_usage(name, e[3])
      [] e[1] = "sample" -> count_variable_usage(name, e[2])
      [] e[1] = "def" -> count_variable_usage(name, e[3])
      [] e[1] = "let" -> count_variable_usage(name, e[3]) + count_variable_usage(name, e[4])
      [] e[1] = "body" ->
            LET RECURSIVE Sum(_)
                Sum(k) == IF k = 0 THEN 0 ELSE count_variable_usage(name, e[2][k]) + Sum(k - 1)
            IN  Sum(Len(e[2]))

\* the scope of the optimizer: name -> value, or the mark of a protected name
Protected == <<"protected">>

None == <<"none">>

ScopeDefine(sc, name, value) == Put(sc, name, value)

ScopeProtect(sc, name) == Put(sc, name, Protected)

ScopeResolve(sc, name) ==
    IF name \in DOMAIN sc /\ sc[name] # Protected THEN sc[name] ELSE None

RECURSIVE Visit(_, _)

\* Optimizer.visit_binary, the end of the method after the rule chain
BinaryTail(sc, node, op, left, right) ==
    IF op = "-" /\ IsUnary(right) /\ right[2] = "-"
    THEN Visit(AstBinary(left, "+", right[3]), sc)
    ELSE AstBinary(left, op, right)

\* Optimizer.visit_binary, `elif is_number(left)`
BinaryLeftNumber(sc, node, left, right) ==
    LET op == node[3]
        value == left[2]
        nested == IsBinary(right) /\ is_number(right[2])
    IN  IF value = 0 /\ op = "+" THEN right
        ELSE IF value = 0 /\ op = "-" THEN Visit(AstUnary("-", right), sc)
        ELSE IF value = 0 /\ op \in {"*", "<<"} THEN left
        ELSE IF value = 1 /\ op = "*" THEN right
        ELSE IF value = -1 /\ op = "*" THEN Visit(AstUnary("-", right), sc)
        ELSE IF nested /\ op = right[3] /\ op \in {"+", "-", "*"}
             THEN Visit(AstBinary(AstValue(op_function(node[3], value, right[2][2])),
                                  IF op = "-" THEN "+" ELSE op, right[4]), sc)
        ELSE IF nested /\ op \in {"+", "-"} /\ right[3] \in {"+", "-"}
             THEN Visit(AstBinary(AstValue(op_function(node[3], value, right[2][2])),
                                  "-", right[4]), sc)
        ELSE BinaryTail(sc, node, op, left, right)

\* Optimizer.visit_binary, `if op in ('<<', '>>') and type(value) is int` for <<
ShiftResult(sc, left, value) == AstBinary(left, "*", AstValue(Pow2(value)))

\* Optimizer.visit_binary, `elif is_number(right)`
BinaryRightNumber(sc, node, left, right0) ==
    LET op0 == node[3]
        value0 == right0[2]
        op == IF op0 = "-" THEN "+" ELSE op0
        value == IF op0 = "-" THEN - value0 ELSE value0
        right == IF op0 = "-" THEN AstValue(value) ELSE right0
        nested == IsBinary(left) /\ is_number(left[4])
    IN  IF value0 = 0 /\ op0 \in {"+", "-"} THEN left
        ELSE IF value0 = 0 /\ op0 = "*" THEN right0
        ELSE IF value0 = 1 /\ op0 = "*" THEN left
        ELSE IF value0 = -1 /\ op0 = "*" THEN Visit(AstUnary("-", right0), sc)
        ELSE IF nested /\ op = left[3] /\ op \in {"+", "*"}
             THEN Visit(AstBinary(left[2], op,
                                  AstValue(op_function(node[3], left[4][2], value))), sc)
        ELSE IF nested /\ op = left[3] /\ op = "-"
             THEN Visit(AstBinary(left[2], "-", AstValue(left[4][2] + value)), sc)
        ELSE IF nested /\ op \in {"+", "-"} /\ left[3] \in {"+", "-"}
             THEN Visit(AstBinary(left[2], left[3], AstValue(left[4][2] - value)), sc)
        ELSE IF op = "<<" THEN ShiftResult(sc, left, value)
        ELSE BinaryTail(sc, node, op, left, right)

\* Optimizer.visit_binary
Optimizer_visit_binary(node, sc) ==
    IF is_symbol(node[2]) /\ is_symbol(node[4]) /\ node[3] = "-" /\ node[2][2] = node[4][2]
    THEN AstValue(0)
    ELSE LET left == Visit(node[2], sc)
             right == Visit(node[4], sc)
         IN  IF is_number(left) /\ is_number(right)
             THEN AstValue(op_function(node[3], left[2], right[2]))
             ELSE IF is_number(left) THEN BinaryLeftNumber(sc, node, left, right)
             ELSE IF is_number(right) THEN BinaryRightNumber(sc, node, left, right)
             ELSE BinaryTail(sc, node, node[3], left, right)

\* Optimizer.visit_unary
Optimizer_visit_unary(node, sc) ==
    LET item == Visit(node[3], sc)
        op == node[2]
    IN  IF op = "+" THEN item
        ELSE IF IsUnary(item) /\ op = item[2] THEN item[3]
        ELSE IF is_number(item) /\ op = "-" THEN AstValue(- item[2])
        ELSE AstUnary(op, item)

\* Optimizer.visit_symbol
Optimizer_visit_symbol(node, sc) ==
    LET value == ScopeResolve(sc, node[2])
    IN  IF value # None THEN value ELSE node

\* Optimizer.visit_sample
Optimizer_visit_sample(node, sc) == AstSample(Visit(node[2], sc))

\* Optimizer.visit_def: the node returned
Optimizer_visit_def(node, sc) == AstDef(node[2], Visit(node[3], sc))

\* Optimizer.visit_def: the scope after it, `define` if the value can be embedded, else `protect`
ScopeAfterDef(def, sc) ==
    IF can_embed(def[3]) THEN ScopeDefine(sc, def[2], def[3]) ELSE ScopeProtect(sc, def[2])

\* Optimizer.visit_let for one target and a body that is a single expression
Optimizer_visit_let(node, sc) ==
    LET target == node[2]
        source == Visit(node[3], sc)
    IN  IF can_embed(source)
        THEN Visit(node[4], ScopeDefine(sc, target, Visit(node[3], sc)))
        ELSE LET result == Visit(node[4], ScopeProtect(sc, target))
                 count == count_variable_usage(target, result)
             IN  IF count = 0 THEN Visit(AstBody(<<node[3], result>>), sc)
                 ELSE IF count = 1 THEN Visit(result, ScopeDefine(sc, target, source))
                 ELSE AstLet(target, source, result)

\* `items = [item.visit(self) for item in node.items]`, a Def changing the scope of the items after it
RECURSIVE VisitItems(_, _)
VisitItems(items, sc) ==
    IF items = <<>> THEN <<>>
    ELSE LET item == Visit(Head(items), sc)
         IN  <<item>> \o VisitItems(Tail(items),
                                    IF item[1] = "def" THEN ScopeAfterDef(item, sc) ELSE sc)

\* the items that are not a Def of a name no item refers to
UsedItems(items) ==
    LET free_vars == UNION { InfoFreeVars(items[k]) : k \in 1..Len(items) }
    IN  SelectSeq(items, LAMBDA item : ~ (item[1] = "def" /\ item[2] \notin free_vars))

\* Optimizer.visit_body in the global scope
Optimizer_visit_body(node, sc) ==
    LET visited == FlattenItems(VisitItems(node[2], sc))
        n == Len(visited)
        kept == IF n > 1
                THEN SelectSeq(SubSeq(visited, 1, n - 1), LAMBDA item : ~ InfoIsExpr(item))
                        \o <<visited[n]>>
                ELSE visited
        items == UsedItems(kept)
    IN  IF Len(items) = 1 THEN items[1] ELSE <<"body", items>>

Visit(node, sc) ==
    CASE node[1] = "value" -> node
      [] node[1] = "symbol" -> Optimizer_visit_symbol(node, sc)
      [] node[1] = "binary" -> Optimizer_visit_binary(node, sc)
      [] node[1] = "unary" -> Optimizer_visit_unary(node, sc)
      [] node[1] = "sample" -> Optimizer_visit_sample(node, sc)
      [] node[1] = "def" -> Optimizer_visit_def(node, sc)
      [] node[1] = "let" -> Optimizer_visit_let(node, sc)
      [] node[1] = "body" -> Optimizer_visit_body(node, sc)

\* optimize: one visit of the program, then the removal of the unused Defs
optimize(ast) ==
    LET result == Visit(ast, << >>)
    IN  IF IsBody(result)
        THEN LET items == UsedItems(result[2])
             IN  IF Len(items) = 1 THEN items[1] ELSE <<"body", items>>
        ELSE result

\* the programs of the model
OptLeaves == { AstSymbol("x"), AstValue(-1), AstValue(0), AstValue(1), AstValue(2), AstValue(3) }

OptOps == {"+", "-", "*", "<<"}

\* the operands op may stand between: the count of a shift is not negative
OptOperands(op) == IF op = "<<" THEN OptLeaves \ {AstValue(-1)} ELSE OptLeaves

OptDepth1 ==
    UNION { { AstBinary(a, op, b) : a \in OptLeaves, b \in OptOperands(op) } : op \in OptOps }
        \cup { AstUnary("-", a) : a \in OptLeaves }

OptDepth2 ==
    UNION { { AstBinary(d, op, b) : d \in OptDepth1, b \in OptOperands(op) } : op \in OptOps }
        \cup { AstBinary(a, op, d) : a \in OptLeaves, op \in OptOps \ {"<<"}, d \in OptDepth1 }

LetSources ==
    { AstValue(2), AstSymbol("y"), AstBinary(AstSymbol("y"), "+", AstValue(1)),
      AstSample(AstSymbol("d")) }

LetBodies ==
    { AstValue(1), AstSymbol("x"), AstBinary(AstSymbol("x"), "+", AstValue(1)),
      AstBinary(AstSymbol("x"), "*", AstSymbol("x")),
      AstBinary(AstSymbol("z"), "+", AstValue(1)) }

OptPrograms ==
    OptLeaves \cup OptDepth1 \cup OptDepth2
        \cup { AstLet("x", src, body) : src \in LetSources, body \in LetBodies }
        \cup { AstBody(<<AstDef("x", src), body>>) : src \in LetSources, body \in LetBodies }

\* optimize(P)
O_Optimize ==
    /\ opt_phase = "input"
    /\ opt_once' = optimize(opt_input)
    /\ opt_phase' = "once"
    /\ UNCHANGED <<opt_input, opt_twice>>
    /\ UNCHANGED NotOpt

\* optimize(optimize(P))
O_OptimizeAgain ==
    /\ opt_phase = "once"
    /\ opt_twice' = optimize(opt_once)
    /\ opt_phase' = "twice"
    /\ UNCHANGED <<opt_input, opt_once>>
    /\ UNCHANGED NotOpt

OptInit ==
    /\ opt_phase = "input"
    /\ opt_input \in OptPrograms
    /\ opt_once = <<>>
    /\ opt_twice = <<>>
    /\ GraphIdle /\ PdfIdle /\ SsaIdle /\ SymIdle /\ ProcIdle /\ CallIdle /\ LexIdle /\ WhileIdle

OptNext ==
    \/ O_Optimize
    \/ O_OptimizeAgain

SpecOpt == OptInit /\ [][OptNext]_vars

\* a Sample stands as an operand of an operator
RECURSIVE SampleInOperand(_)
SampleInOperand(e) ==
    CASE e[1] = "binary" -> InfoHasSample(e[2]) \/ InfoHasSample(e[4])
      [] e[1] = "unary" -> InfoHasSample(e[3])
      [] e[1] = "sample" -> SampleInOperand(e[2])
      [] e[1] = "def" -> SampleInOperand(e[3])
      [] e[1] = "let" -> SampleInOperand(e[3]) \/ SampleInOperand(e[4])
      [] e[1] = "body" -> \E k \in 1..Len(e[2]) : SampleInOperand(e[2][k])
      [] OTHER -> FALSE

(***************************************************************************)
(* C8: the optimizer never moves an expression containing a Sample to the  *)
(* place where its variable is used: in the programs of the model, where   *)
(* a Sample is the source of a Let or the value of a Def, no Sample of the *)
(* output is an operand.                                                   *)
(***************************************************************************)
C8_SampleStaysAtItsBinding ==
    opt_phase \in {"once", "twice"} => ~ SampleInOperand(opt_once)

(***************************************************************************)
(* C9: optimize(optimize(P)) is structurally equal to optimize(P).         *)
(***************************************************************************)
C9_OptimizeIsIdempotent ==
    opt_phase = "twice" => opt_twice = opt_once

\* the values of the variable x an expression is evaluated at
OptValues == -2..2

\* the value of an arithmetic expression when x has the value v
RECURSIVE Eval(_, _)
Eval(e, v) ==
    CASE e[1] = "value" -> e[2]
      [] e[1] = "symbol" -> v
      [] e[1] = "binary" -> op_function(e[3], Eval(e[2], v), Eval(e[4], v))
      [] e[1] = "unary" -> IF e[2] = "-" THEN - Eval(e[3], v) ELSE Eval(e[3], v)

\* an expression built from x, integer constants and the operators + - *
RECURSIVE IsArithmetic(_)
IsArithmetic(e) ==
    CASE e[1] = "value" -> TRUE
      [] e[1] = "symbol" -> e[2] = "x"
      [] e[1] = "binary" -> e[3] \in {"+", "-", "*"} /\ IsArithmetic(e[2]) /\ IsArithmetic(e[4])
      [] OTHER -> FALSE

\* C16: the expression Optimizer.visit_binary returns for an arithmetic
\* expression over x, integer constants and + - * has the value of the input
\* expression, whatever the value of x.
C16_RewritesPreserveValue ==
    (opt_phase \in {"once", "twice"} /\ IsBinary(opt_input) /\ IsArithmetic(opt_input))
        => \A v \in OptValues : Eval(opt_once, v) = Eval(opt_input, v)

\* C20: no statement containing a Sample is removed from a body: a body with
\* a Sample is optimized to a program with a Sample, also when the Sample is
\* the value of a Def whose name is never referenced.
C20_SamplesAreKept ==
    (opt_phase \in {"once", "twice"} /\ IsBody(opt_input) /\ InfoHasSample(opt_input))
        => InfoHasSample(opt_once)

\* the program holds, as itself or as a statement of its body, a Def of the name
DefinesName(e, name) ==
    \/ e[1] = "def" /\ e[2] = name
    \/ IsBody(e) /\ \E k \in 1..Len(e[2]) : e[2][k][1] = "def" /\ e[2][k][2] = name

\* C21: no Def is removed while the optimizer is in the global scope: every
\* name a statement of the top-level body defines is still defined by a
\* statement of the optimized program.
C21_GlobalDefsAreKept ==
    (opt_phase \in {"once", "twice"} /\ IsBody(opt_input))
        => \A k \in 1..Len(opt_input[2]) :
                opt_input[2][k][1] = "def" => DefinesName(opt_once, opt_input[2][k][2])

(***************************************************************************)
(*          PART 6: SUCCESSIVE COMPILATIONS IN ONE PROCESS                 *)
(*                                                                         *)
(* One source is compiled twice in one process.  A source is given by the  *)
(* names its compilation generates, in order: "symbol" for a name binding  *)
(* (pyppl parse: SymbolTableGenerator.create_symbol), "sample" and         *)
(* "observe" for a graph node (pyppl GraphFactory.generate_symbol, foppl   *)
(* GraphNode.__gen_symbol__).                                              *)
(***************************************************************************)
MaxSourceLen == 3

SourceItems(p) == IF p = "pyppl" THEN {"symbol", "sample", "observe"} ELSE {"sample", "observe"}

Sources(p) == UNION { [1..n -> SourceItems(p)] : n \in 1..MaxSourceLen }

NodePrefix(item) == IF item = "observe" THEN Prefix("y") ELSE Prefix("x")

ProcRecord(name) == [proc_names EXCEPT ![proc_run] = Append(@, name)]

ProcItem == proc_source[proc_pos]

ProcCompiling == proc_run \in {1, 2} /\ proc_pos <= Len(proc_source)

\* the start of a compilation: pyppl parse() makes a new SymbolTableGenerator and
\* the back end a new GraphFactory (self._counter = 30000); foppl compile() makes
\* a new Compiler.  Neither touches _symbol_counter or GraphNode.__symbol_counter__.
C_BeginCompilation ==
    /\ proc_run < 2
    /\ proc_run = 0 \/ proc_pos > Len(proc_source)
    /\ proc_run' = proc_run + 1
    /\ proc_pos' = 1
    /\ proc_factory_counter' = InitialSymbolCounter
    /\ UNCHANGED <<proc_pipeline, proc_source, proc_symbol_counter, proc_node_counter, proc_names>>
    /\ UNCHANGED NotProc

\* Symbol.__init__ for a binding of the name x
C_CreateSymbol ==
    /\ ProcCompiling /\ proc_pipeline = "pyppl" /\ ProcItem = "symbol"
    /\ proc_names' = ProcRecord(full_name("x", proc_symbol_counter))
    /\ proc_symbol_counter' = proc_symbol_counter + 1
    /\ proc_pos' = proc_pos + 1
    /\ UNCHANGED <<proc_pipeline, proc_source, proc_run, proc_node_counter, proc_factory_counter>>
    /\ UNCHANGED NotProc

\* GraphFactory.generate_symbol
C_GenerateSymbol ==
    /\ ProcCompiling /\ proc_pipeline = "pyppl" /\ ProcItem # "symbol"
    /\ proc_factory_counter' = proc_factory_counter + 1
    /\ proc_names' = ProcRecord(NodePrefix(ProcItem) \o IntToStr(proc_factory_counter'))
    /\ proc_pos' = proc_pos + 1
    /\ UNCHANGED <<proc_pipeline, proc_source, proc_run, proc_symbol_counter, proc_node_counter>>
    /\ UNCHANGED NotProc

\* foppl GraphNode.__gen_symbol__
C_GenSymbol ==
    /\ ProcCompiling /\ proc_pipeline = "foppl"
    /\ proc_node_counter' = proc_node_counter + 1
    /\ proc_names' = ProcRecord(NodePrefix(ProcItem) \o IntToStr(proc_node_counter'))
    /\ proc_pos' = proc_pos + 1
    /\ UNCHANGED <<proc_pipeline, proc_source, proc_run, proc_symbol_counter, proc_factory_counter>>
    /\ UNCHANGED NotProc

\* a process that has loaded the modules and compiled nothing yet
ProcInit ==
    /\ proc_pipeline \in {"foppl", "pyppl"}
    /\ proc_source \in Sources(proc_pipeline)
    /\ proc_run = 0
    /\ proc_pos = 0
    /\ proc_symbol_counter = FirstSymbolCounter
    /\ proc_node_counter = InitialSymbolCounter
    /\ proc_factory_counter = 0
    /\ proc_names = << <<>>, <<>> >>
    /\ GraphIdle /\ PdfIdle /\ SsaIdle /\ SymIdle /\ OptIdle /\ CallIdle /\ LexIdle /\ WhileIdle

ProcNext ==
    \/ C_BeginCompilation
    \/ C_CreateSymbol
    \/ C_GenerateSymbol
    \/ C_GenSymbol

SpecProc == ProcInit /\ [][ProcNext]_vars

ProcBothDone == proc_run = 2 /\ proc_pos > Len(proc_source)

(***************************************************************************)
(* C11: two successive compilations of one source in one process yield     *)
(* the same mangled symbol names and the same node names, both naming      *)
(* counters starting from their initial value in each compilation.         *)
(***************************************************************************)
C11_CompilationsDoNotInteract ==
    /\ (proc_run \in {1, 2} /\ proc_pos = 1) =>
            /\ proc_pipeline = "pyppl" =>
                    /\ proc_symbol_counter = FirstSymbolCounter
                    /\ proc_factory_counter = InitialSymbolCounter
            /\ proc_pipeline = "foppl" => proc_node_counter = InitialSymbolCounter
    /\ ProcBothDone => proc_names[1] = proc_names[2]

(***************************************************************************)
(*          PART 7: CHOICE OF THE PARSER (language detection)              *)
(*                                                                         *)
(* src/pyppl/parser.py and src/foppl/compilers.py.  A source is a sequence *)
(* of code points; the call records which parser the source is handed to.  *)
(***************************************************************************)
MaxSourceChars == 2

\* the characters sources are made of: newline, space, " # ( + 1 ; A [ _ a
SourceAlphabet == {10, 32, 34, 35, 40, 43, 49, 59, 65, 91, 95, 97}

SourceTexts == UNION { [1..n -> SourceAlphabet] : n \in 0..MaxSourceChars }

LanguageHints == {"None", "py", "python", "clj", "clojure", "foppl"}

\* 'A' <= c <= 'Z' or 'a' <= c <= 'z'
IsAsciiLetter(c) == (65 <= c /\ c <= 90) \/ (97 <= c /\ c <= 122)

\* pyppl _detect_language: the loop over the characters of s, from index i
RECURSIVE P_DetectFrom(_, _)
P_DetectFrom(s, i) ==
    IF i > Len(s) THEN "None"
    ELSE IF s[i] = 35 THEN "py"
    ELSE IF s[i] \in {59, 40} THEN "clj"
    ELSE IF IsAsciiLetter(s[i]) \/ s[i] = 95 THEN "py"
    ELSE IF s[i] > 32 THEN "py"
    ELSE P_DetectFrom(s, i + 1)

P_detect_language(s) == P_DetectFrom(s, 1)

\* foppl _detect_language: `while i < len(source) and source[i] <= ' ': i += 1`
RECURSIVE F_SkipBlanks(_, _)
F_SkipBlanks(source, i) ==
    IF i <= Len(source) /\ source[i] <= 32 THEN F_SkipBlanks(source, i + 1) ELSE i

F_detect_language(source) ==
    LET i == F_SkipBlanks(source, 1) IN
    IF i <= Len(source)
    THEN IF source[i] \in {59, 40} THEN "clj"
         ELSE IF source[i] = 35 \/ IsAsciiLetter(source[i]) THEN "py"
         ELSE "None"
    ELSE "None"

\* pyppl parse(source, language=...): the parser that is run on the source
P_Parse ==
    /\ call_fn = "none"
    /\ call_fn' = "pyppl.parse"
    /\ LET lang == IF call_args.language = "None"
                   THEN P_detect_language(call_args.source)
                   ELSE call_args.language
       IN call_result' =
            IF lang \in {"py", "python"} THEN "python"
            ELSE IF lang \in {"clj", "clojure"} THEN "clojure"
            ELSE IF lang = "foppl" THEN "foppl"
            ELSE "none"
    /\ UNCHANGED call_args
    /\ UNCHANGED NotCall

\* foppl compile(source), which takes no language hint
F_Compile ==
    /\ call_fn = "none"
    /\ call_args.language = "None"
    /\ call_fn' = "foppl.compile"
    /\ LET lang == F_detect_language(call_args.source)
       IN call_result' =
            IF lang = "py" THEN "python"
            ELSE IF lang = "clj" THEN "clojure"
            ELSE "RuntimeError"
    /\ UNCHANGED call_args
    /\ UNCHANGED NotCall

DetectInit ==
    /\ call_fn = "none"
    /\ call_args \in [source : SourceTexts, language : LanguageHints]
    /\ call_result = <<>>
    /\ GraphIdle /\ PdfIdle /\ SsaIdle /\ SymIdle /\ OptIdle /\ ProcIdle /\ LexIdle /\ WhileIdle

DetectNext ==
    \/ P_Parse
    \/ F_Compile

SpecDetect == DetectInit /\ [][DetectNext]_vars

\* the characters before the first one that is not whitespace
RECURSIVE FirstNonWhitespace(_, _)
FirstNonWhitespace(s, i) ==
    IF i > Len(s) THEN 0
    ELSE IF s[i] \in {9, 10, 13, 32} THEN FirstNonWhitespace(s, i + 1)
    ELSE s[i]

\* C13: with no language hint the first non-whitespace character alone chooses
\* the parser: `;` or `(` the Lisp parser, every other character the
\* imperative parser.
C13_FirstCharacterChoosesParser ==
    (/\ call_fn \in {"pyppl.parse", "foppl.compile"}
     /\ call_args.language = "None"
     /\ FirstNonWhitespace(call_args.source, 1) # 0)
    => call_result = IF FirstNonWhitespace(call_args.source, 1) \in {59, 40}
                     THEN "clojure"
                     ELSE "python"

(***************************************************************************)
(*                    PART 8: LEXER                                        *)
(*                                                                         *)
(* src/pyppl/lexer.py.  Characters are code points; positions are 0-based  *)
(* as in the code, so the character at position p is lex_source[p + 1].    *)
(***************************************************************************)
MaxLexLen == 3

\* the characters sources are made of: newline, space, " ( + 1 ; = \ a and e-acute
LexAlphabet == {10, 32, 34, 40, 43, 49, 59, 61, 92, 97, 233}

LexSources == UNION { [1..n -> LexAlphabet] : n \in 1..MaxLexLen }

\* CategoryCodes.__init__: the table of 128 entries, later assignments last
catcodes(c) ==
    IF c \in {39, 34} THEN "STRING_DELIMITER"
    ELSE IF c \in {41, 93, 125} THEN "RIGHT_BRACKET"
    ELSE IF c \in {40, 91, 123} THEN "LEFT_BRACKET"
    ELSE IF (97 <= c /\ c <= 122) \/ (65 <= c /\ c <= 90) THEN "ALPHA"
    ELSE IF 48 <= c /\ c <= 57 THEN "NUMERIC"
    ELSE IF 33 <= c /\ c < 65 THEN "SYMBOL"
    ELSE IF c = 95 THEN "ALPHA"
    ELSE IF c \in {9, 13, 32} THEN "WHITESPACE"
    ELSE IF c = 10 THEN "NEWLINE"
    ELSE "INVALID"

\* CategoryCodes.__getitem__: self.catcodes[ord(item)] raises IndexError
\* beyond the table
CatCodeOf(c) == IF c < 128 THEN catcodes(c) ELSE "IndexError"

\* CharacterStream.__getitem__ (peek, current): default_char beyond the source
CharAt(s, p) == IF 0 <= p /\ p < Len(s) THEN s[p + 1] ELSE 0

\* take_while / drop_while with a predicate on the category: the position of
\* the first character whose category is not in cats, -1 if the look-up of a
\* character raises IndexError
RECURSIVE ScanCategories(_, _, _)
ScanCategories(s, i, cats) ==
    IF i >= Len(s) THEN i
    ELSE IF CatCodeOf(s[i + 1]) = "IndexError" THEN -1
    ELSE IF CatCodeOf(s[i + 1]) \in cats THEN ScanCategories(s, i + 1, cats)
    ELSE i

\* take_while / drop_while with a predicate `c in chars`
RECURSIVE ScanChars(_, _, _)
ScanChars(s, i, chars) ==
    IF i < Len(s) /\ s[i + 1] \in chars THEN ScanChars(s, i + 1, chars) ELSE i

\* drop_while(lambda c: c != '\n')
RECURSIVE ScanLine(_, _)
ScanLine(s, i) ==
    IF i < Len(s) /\ s[i + 1] # 10 THEN ScanLine(s, i + 1) ELSE i

\* Lexer.ext_symbols; '|=' '===' is one string in the source
ext_symbols ==
    { <<43, 61>>, <<45, 61>>, <<42, 61>>, <<47, 61>>, <<37, 61>>,
      <<60, 61>>, <<62, 61>>, <<61, 61>>, <<33, 61>>,
      <<60, 60>>, <<62, 62>>, <<42, 42>>, <<47, 47>>,
      <<38, 38>>, <<124, 124>>, <<38, 61>>, <<124, 61, 61, 61, 61>>,
      <<60, 60, 61>>, <<62, 62, 61>>, <<42, 42, 61>>, <<47, 47, 61>>,
      <<46, 46>>, <<46, 46, 46>>,
      <<60, 126>>, <<126, 62>> }

Digits == 48..57

\* what a step of the lexer comes to: a token, the end of the iteration or an
\* exception, with the position the stream is left at
Outcome(kind, type, start, pos, c) ==
    [kind |-> kind, type |-> type, start |-> start, pos |-> pos, c |-> c]

\* Lexer.read_string: the position after the string that starts at pos
RECURSIVE StringEnd(_, _, _)
StringEnd(s, pos, i) ==
    IF CharAt(s, pos + i) \notin {CharAt(s, pos), 0}
    THEN StringEnd(s, pos, i + (IF CharAt(s, pos + i) = 92 THEN 2 ELSE 1))
    ELSE IF CharAt(s, pos + i) = CharAt(s, pos) THEN pos + i + 1 ELSE pos + i

\* a plausible slip: the position after `take(i)` without the bound
\* min(len(self.source), p + count) of CharacterStream.take
read_string_unclamped(s, pos) ==
    Outcome("token", "STRING", pos, StringEnd(s, pos, 1), 0)

\* Lexer.read_string, and CharacterStream.take on its result
read_string(s, pos) ==
    LET e == StringEnd(s, pos, 1)
    IN Outcome("token", "STRING", pos, IF e < Len(s) THEN e ELSE Len(s), 0)

\* Lexer.read_symbol
read_symbol(s, pos) ==
    LET result == s[pos + 1]
        nc == CharAt(s, pos + 1)
        pc == CharAt(s, pos + 2)
    IN IF CatCodeOf(nc) = "IndexError"
       THEN Outcome("IndexError", "", pos, pos + 1, 0)
       ELSE IF CatCodeOf(nc) = "SYMBOL"
       THEN IF CatCodeOf(pc) = "IndexError"
            THEN Outcome("IndexError", "", pos, pos + 1, 0)
            ELSE IF CatCodeOf(pc) = "SYMBOL" /\ <<result, nc, pc>> \in ext_symbols
            THEN Outcome("token", "SYMBOL", pos, pos + 3, 0)
            ELSE IF <<result, nc>> \in ext_symbols
            THEN Outcome("token", "SYMBOL", pos, pos + 2, 0)
            ELSE Outcome("token", "SYMBOL", pos, pos + 1, 0)
       ELSE Outcome("token", "SYMBOL", pos, pos + 1, 0)

\* Lexer.read_number
read_number(s, pos) ==
    IF CharAt(s, pos) = 48 /\ CharAt(s, pos + 1) \in {120, 88, 98, 66, 111, 79}
    THEN LET is_digit == IF CharAt(s, pos + 1) \in {120, 88}
                         THEN Digits \cup (65..70) \cup (97..102)
                         ELSE IF CharAt(s, pos + 1) \in {111, 79} THEN 48..55
                         ELSE {48, 49}
             e == ScanChars(s, pos + 2, is_digit)
         IN IF e = pos + 2
            THEN Outcome("ValueError", "", pos, e, 0)
            ELSE Outcome("token", "NUMBER", pos, e, 0)
    ELSE LET e1 == ScanChars(s, pos, Digits)
             e2 == IF CharAt(s, e1) = 46 /\ CharAt(s, e1 + 1) \in Digits
                   THEN ScanChars(s, e1 + 1, Digits)
                   ELSE e1
             e3 == IF /\ CharAt(s, e2) \in {101, 69}
                      /\ \/ CharAt(s, e2 + 1) \in Digits
                         \/ CharAt(s, e2 + 1) \in {43, 45} /\ CharAt(s, e2 + 2) \in Digits
                   THEN ScanChars(s, IF CharAt(s, e2 + 1) \in {43, 45} THEN e2 + 2 ELSE e2 + 1,
                                  Digits)
                   ELSE e2
         IN Outcome("token", "NUMBER", pos, e3, 0)

\* Lexer.read_name
read_name(s, pos) ==
    LET e == ScanCategories(s, pos, {"ALPHA", "NUMERIC"})
    IN IF e = -1
       THEN Outcome("IndexError", "", pos, pos, 0)
       ELSE Outcome("token", "SYMBOL", pos, e, 0)

\* Lexer.__next__ with the stream at position pos (block comments are not
\* configured: block_comment_start is None)
RECURSIVE next(_, _, _)
next(s, line_comment, pos) ==
    IF pos >= Len(s) THEN Outcome("StopIteration", "", pos, pos, 0)
    ELSE IF line_comment # 0 /\ s[pos + 1] = line_comment
    THEN next(s, line_comment, ScanLine(s, pos))
    ELSE LET c == s[pos + 1]
             cc == CatCodeOf(c)
         IN CASE cc = "IndexError" -> Outcome("IndexError", "", pos, pos, 0)
              [] cc = "IGNORE" -> next(s, line_comment, pos + 1)
              [] cc = "INVALID" -> Outcome("SyntaxError", "", pos, pos, c)
              [] cc = "LINE_COMMENT" -> next(s, line_comment, ScanLine(s, pos))
              [] cc = "WHITESPACE" ->
                   IF ScanCategories(s, pos, {"WHITESPACE"}) = -1
                   THEN Outcome("IndexError", "", pos, pos, 0)
                   ELSE next(s, line_comment, ScanCategories(s, pos, {"WHITESPACE"}))
              [] cc = "STRING_DELIMITER" -> read_string(s, pos)
              [] cc \in {"SYMBOL", "DELIMITER"} -> read_symbol(s, pos)
              [] cc \in {"LEFT_BRACKET", "RIGHT_BRACKET"} -> Outcome("token", cc, pos, pos + 1, 0)
              [] cc = "NUMERIC" -> read_number(s, pos)
              [] cc = "ALPHA" -> read_name(s, pos)
              [] cc = "NEWLINE" -> Outcome("token", "NEWLINE", pos, pos + 1, 0)

NoError == [type |-> "none"]

\* the exception as the caller sees it: its class and what its message holds,
\* "invalid character in input stream: {hex(ord(c))}/'{c}'"
Raised(o) ==
    IF o.kind = "SyntaxError"
    THEN [type |-> "SyntaxError", codepoint |-> o.c]
    ELSE [type |-> o.kind]

\* one call of Lexer.__next__ that does not end the iteration
L_Next ==
    /\ lex_error = NoError
    /\ LET o == next(lex_source, lex_comment, lex_pos)
       IN /\ o.kind # "StopIteration"
          /\ lex_pos' = o.pos
          /\ IF o.kind = "token"
             THEN /\ lex_tokens' = Append(lex_tokens, <<o.start, o.type, o.pos>>)
                  /\ UNCHANGED lex_error
             ELSE /\ lex_error' = Raised(o)
                  /\ UNCHANGED lex_tokens
    /\ UNCHANGED <<lex_source, lex_comment>>
    /\ UNCHANGED NotLex

\* the call of Lexer.__next__ that raises StopIteration
L_Stop ==
    /\ lex_error = NoError
    /\ LET o == next(lex_source, lex_comment, lex_pos)
       IN /\ o.kind = "StopIteration"
          /\ lex_pos' = o.pos
          /\ lex_error' = [type |-> "StopIteration"]
    /\ UNCHANGED <<lex_source, lex_comment, lex_tokens>>
    /\ UNCHANGED NotLex

LexInit ==
    /\ lex_source \in LexSources
    /\ lex_comment \in {0, 59}
    /\ lex_pos = 0
    /\ lex_tokens = <<>>
    /\ lex_error = NoError
    /\ GraphIdle /\ PdfIdle /\ SsaIdle /\ SymIdle /\ OptIdle /\ ProcIdle /\ CallIdle /\ WhileIdle

LexNext ==
    \/ L_Next
    \/ L_Stop

SpecLexer == LexInit /\ [][LexNext]_vars

\* the lexer has failed on the character at its position
LexFailed == lex_error.type \notin {"none", "StopIteration"}

\* C14: when the lexer fails on a character, the error bears the position and
\* the code point of that character, and no token starts at it.
C14_InvalidCharacterIsReported ==
    LexFailed =>
        /\ "codepoint" \in DOMAIN lex_error
        /\ lex_error.codepoint = CharAt(lex_source, lex_pos)
        /\ "position" \in DOMAIN lex_error
        /\ lex_error.position = lex_pos
        /\ \A k \in 1..Len(lex_tokens) : lex_tokens[k][1] # lex_pos

\* the iteration under the scheduling of a `for` loop over the lexer, which
\* calls __next__ until it raises
SpecLexerFair == SpecLexer /\ WF_vars(LexNext)

\* the call of __next__ of this step has returned a token
TokenReturned == Len(lex_tokens') = Len(lex_tokens) + 1

\* C29: every call of Lexer.__next__ either raises (StopIteration at the end
\* of the input, or an error) or returns a token and leaves the position of
\* the stream strictly greater than before the call and at most the length of
\* the input; the start positions of the tokens are strictly increasing; and
\* iterating the lexer comes to an end.
C29_NextMakesProgress ==
    /\ [][\/ lex_error' # NoError /\ lex_tokens' = lex_tokens
          \/ /\ TokenReturned
             /\ lex_error' = NoError
             /\ lex_pos' > lex_pos
             /\ lex_pos' <= Len(lex_source)
             /\ lex_tokens'[Len(lex_tokens')][1] >= lex_pos
             /\ lex_tokens'[Len(lex_tokens')][3] = lex_pos']_vars
    /\ [](\A k \in 1..(Len(lex_tokens) - 1) : lex_tokens[k][1] < lex_tokens[k + 1][1])
    /\ <>(lex_error # NoError)

\* two tokens with a blank skipped between them, and the iteration ended at
\* the end of the input
C29_Witness ==
    /\ Len(lex_tokens) >= 2
    /\ lex_tokens[2][1] > lex_tokens[1][3]
    /\ lex_error.type = "StopIteration"
    /\ lex_pos = Len(lex_source)

(***************************************************************************)
(*                    PART 9: CONSTRUCTION OF A BODY                       *)
(*                                                                         *)
(* AstBody.__init__ (src/pyppl/ppl_ast.py), called on items that are       *)
(* leaves, the Body built by the call before, or a Def holding that Body.  *)
(***************************************************************************)
MaxBodyArgs == 3

MaxBodyItems == 3

BodyLeaves == { AstValue(1), AstSymbol("x") }

\* some statement of the Body is a Def
HoldsDef(body) == \E i \in 1..Len(body[2]) : body[2][i][1] = "def"

\* the nodes at hand for the next constructor call; a Body is put into a Def
\* only if it holds no Def itself, which bounds the depth of nesting
BodyParts ==
    IF call_fn = "AstBody"
    THEN BodyLeaves \cup { call_result }
            \cup (IF HoldsDef(call_result) THEN {} ELSE { AstDef("y", call_result) })
    ELSE BodyLeaves

\* AstBody(items)
B_Construct(items) ==
    /\ call_fn \in {"none", "AstBody"}
    /\ Len(AstBody(items)[2]) <= MaxBodyItems
    /\ call_fn' = "AstBody"
    /\ call_args' = items
    /\ call_result' = AstBody(items)
    /\ UNCHANGED NotCall

BodyInit ==
    /\ call_fn = "none"
    /\ call_args = <<>>
    /\ call_result = <<>>
    /\ GraphIdle /\ PdfIdle /\ SsaIdle /\ SymIdle /\ OptIdle /\ ProcIdle /\ LexIdle /\ WhileIdle

BodyNext ==
    \E n \in 0..MaxBodyArgs : \E items \in [1..n -> BodyParts] : B_Construct(items)

SpecBody == BodyInit /\ [][BodyNext]_vars

\* the statements of a sequence of nodes, every directly nested Body replaced
\* by its own statements, in order
RECURSIVE Statements(_)
Statements(items) ==
    IF items = <<>> THEN <<>>
    ELSE (IF IsBody(Head(items)) THEN Statements(Head(items)[2]) ELSE <<Head(items)>>)
            \o Statements(Tail(items))

\* C17: a Body built from constructor-built parts holds the items of its
\* arguments in order, those of a directly nested Body spliced in, and never
\* directly contains a Body.
C17_BodyIsFlattened ==
    call_fn = "AstBody" =>
        /\ \A k \in 1..Len(call_result[2]) : ~ IsBody(call_result[2][k])
        /\ call_result[2] = Statements(call_args)

\* a Body of two statements is nested after another item
C17_Witness ==
    /\ call_fn = "AstBody"
    /\ Len(call_args) = 2
    /\ ~ IsBody(call_args[1])
    /\ IsBody(call_args[2]) /\ Len(call_args[2][2]) = 2

(***************************************************************************)
(*                    PART 10: CONDITION EXPANSION                         *)
(*                                                                         *)
(* ConditionExpander (src/pyppl/ppl_cond_expander.py) on expressions with  *)
(* the nodes of PART 5 and                                                 *)
(*   <<"if", test, if_node, else_node>>   <<"call", function, args>>       *)
(***************************************************************************)
AstIf(test, if_node, else_node) == <<"if", test, if_node, else_node>>

AstCall(function, args) == <<"call", function, args>>

IsIf(e) == e[1] = "if"

\* AstIf.has_else
has_else(node) == node[4] # None

RECURSIVE Expand(_)

\* ConditionExpander.visit_binary
Expander_visit_binary(node) ==
    LET left == Expand(node[2])
        right == Expand(node[4])
    IN  IF IsIf(left)
        THEN AstIf(left[2], AstBinary(left[3], node[3], right),
                   IF has_else(left) THEN AstBinary(left[4], node[3], right) ELSE None)
        ELSE node

\* ConditionExpander.visit_unary
Expander_visit_unary(node) ==
    LET item == Expand(node[3])
    IN  IF IsIf(item)
        THEN AstIf(item[2], AstUnary(node[2], item[3]),
                   IF has_else(item) THEN AstUnary(node[2], item[4]) ELSE None)
        ELSE node

\* ConditionExpander.visit_call
Expander_visit_call(node) ==
    LET args == [k \in 1..Len(node[3]) |-> Expand(node[3][k])]
    IN  IF \E k \in 1..Len(args) : IsIf(args[k])
        THEN LET i == CHOOSE k \in 1..Len(args) :
                        IsIf(args[k]) /\ \A j \in 1..(k - 1) : ~ IsIf(args[j])
                 arg == args[i]
             IN  AstIf(arg[2],
                       Expand(AstCall(node[2], [args EXCEPT ![i] = arg[3]])),
                       IF has_else(arg)
                       THEN AstCall(node[2], [args EXCEPT ![i] = arg[4]])
                       ELSE None)
        ELSE node

\* Visitor.visit: the visit method of the node's class, visit_node for the others
Expand(node) ==
    CASE node[1] = "binary" -> Expander_visit_binary(node)
      [] node[1] = "unary" -> Expander_visit_unary(node)
      [] node[1] = "call" -> Expander_visit_call(node)
      [] OTHER -> node

\* the expressions of the model
ExpandOperands ==
    { AstSymbol("a"), AstValue(1),
      AstIf(AstSymbol("c"), AstSymbol("a"), AstSymbol("b")),
      AstIf(AstSymbol("d"), AstSymbol("e"), AstSymbol("f")),
      AstIf(AstSymbol("c"), AstSymbol("a"), None) }

ExpandDepth1 ==
    { AstBinary(l, "+", r) : l \in ExpandOperands, r \in ExpandOperands }
        \cup { AstUnary("-", item) : item \in ExpandOperands }
        \cup { AstCall(AstSymbol("normal"), <<a1, a2>>) : a1 \in ExpandOperands, a2 \in ExpandOperands }

ExpandInputs ==
    ExpandDepth1
        \cup { AstBinary(l, "+", AstSymbol("r")) : l \in ExpandDepth1 }
        \cup { AstUnary("-", item) : item \in ExpandDepth1 }
        \cup { AstCall(AstSymbol("normal"), <<a1, AstValue(1)>>) : a1 \in ExpandDepth1 }

\* ConditionExpander().visit(node)
X_Expand ==
    /\ call_fn = "none"
    /\ call_fn' = "ConditionExpander.visit"
    /\ call_result' = Expand(call_args)
    /\ UNCHANGED call_args
    /\ UNCHANGED NotCall

ExpandInit ==
    /\ call_fn = "none"
    /\ call_args \in ExpandInputs
    /\ call_result = <<>>
    /\ GraphIdle /\ PdfIdle /\ SsaIdle /\ SymIdle /\ OptIdle /\ ProcIdle /\ LexIdle /\ WhileIdle

ExpandNext == X_Expand

SpecExpand == ExpandInit /\ [][ExpandNext]_vars

\* no operator or call of the tree has an If as a direct operand or argument
RECURSIVE NoIfOperand(_)
NoIfOperand(e) ==
    CASE e[1] = "binary" ->
            ~ IsIf(e[2]) /\ ~ IsIf(e[4]) /\ NoIfOperand(e[2]) /\ NoIfOperand(e[4])
      [] e[1] = "unary" -> ~ IsIf(e[3]) /\ NoIfOperand(e[3])
      [] e[1] = "call" ->
            \A k \in 1..Len(e[3]) : ~ IsIf(e[3][k]) /\ NoIfOperand(e[3][k])
      [] e[1] = "if" -> NoIfOperand(e[2]) /\ NoIfOperand(e[3]) /\ NoIfOperand(e[4])
      [] OTHER -> TRUE

\* C19: the tree the condition expander returns for a Binary, Unary or Call
\* has no If as a direct operand or argument of an operator or call.
C19_IfIsLiftedAboveOperators ==
    call_fn = "ConditionExpander.visit" => NoIfOperand(call_result)

(***************************************************************************)
(*                    PART 11: UNROLLING OF WHILE LOOPS                    *)
(*                                                                         *)
(* Optimizer.visit_while (src/pyppl/ppl_optimizers.py) and                 *)
(* PartialEvaluator.visit_while (src/pyppl/ppl_evaluator.py) on the        *)
(* counting loops  `while i < N: i = i + 1`  entered with i = 0 in scope.  *)
(* The variables of PART 7 hold the call.                                  *)
(***************************************************************************)
MAX_WHILE_ITERATIONS == 100

AstCompare(left, op, right) == <<"compare", left, op, right>>

AstWhile(test, body) == <<"while", test, body>>

is_boolean(e) == e[1] = "value" /\ e[2] \in BOOLEAN

is_boolean_true(e) == is_boolean(e) /\ e[2] = TRUE

\* visit_compare of both visitors on `left < right`: a constant if both sides are numbers
While_visit_compare(node, sc) ==
    LET left == Visit(node[2], sc)
        right == Visit(node[4], sc)
    IN  IF is_number(left) /\ is_number(right)
        THEN AstValue(left[2] < right[2])
        ELSE AstCompare(left, node[3], right)

\* the counting loop with the bound n
CountingLoop(n) ==
    AstWhile(AstCompare(AstSymbol("i"), "<", AstValue(n)),
             AstDef("i", AstBinary(AstSymbol("i"), "+", AstValue(1))))

\* the scope the loops are entered with
LoopScope == ScopeDefine(<< >>, "i", AstValue(0))

\* the bounds of the loops that are unrolled
MaxWhileBound == 102

\* the value visit_while returns or the exception it raises, with the number of visits of node.body
Returned(node, visits) == [node |-> node, visits |-> visits]

\* Optimizer.visit_while up to the unrolling loop
W_OptimizerVisitWhile ==
    /\ call_fn = "none"
    /\ call_fn' = "Optimizer.visit_while"
    /\ LET node == call_args[1]
           sc == LoopScope
           test == While_visit_compare(node[2], sc)
           changed_vars == {node[3][2]}
           body == Visit(node[3], ScopeProtect(sc, node[3][2]))
           free_vars == InfoFreeVars(node[2][2]) \cup InfoFreeVars(node[2][4])
       IN  IF is_boolean(test) /\ ~ test[2]
           THEN call_result' = Returned(AstBody(<<>>), 1) /\ while_frame' = <<>>
           ELSE IF is_boolean(test) /\ free_vars \cap changed_vars # {}
           THEN /\ call_result' = <<>>
                /\ while_frame' = [scope |-> sc, result |-> <<>>, visits |-> 1,
                                   kept |-> AstWhile(test, body)]
           ELSE call_result' = Returned(AstWhile(test, body), 1) /\ while_frame' = <<>>
    /\ UNCHANGED call_args
    /\ UNCHANGED <<GraphVars, PdfVars, SsaVars, SymVars, OptVars, ProcVars, LexVars>>

\* Optimizer.visit_while: one test of the unrolling loop, with the iteration
\* or the statements after the loop
W_OptimizerIterate ==
    /\ call_fn = "Optimizer.visit_while"
    /\ while_frame # <<>>
    /\ LET node == call_args[1]
           f == while_frame
       IN  IF is_boolean_true(While_visit_compare(node[2], f.scope))
                /\ Len(f.result) < MAX_WHILE_ITERATIONS
           THEN LET item == Visit(node[3], f.scope)
                IN  /\ while_frame' = [f EXCEPT !.scope = ScopeAfterDef(item, f.scope),
                                                !.result = Append(f.result, item),
                                                !.visits = f.visits + 1]
                    /\ UNCHANGED call_result
           ELSE /\ while_frame' = <<>>
                /\ call_result' =
                        IF Len(f.result) < MAX_WHILE_ITERATIONS
                        THEN Returned(AstBody(f.result), f.visits)
                        ELSE Returned(f.kept, f.visits)
    /\ UNCHANGED <<call_fn, call_args>>
    /\ UNCHANGED <<GraphVars, PdfVars, SsaVars, SymVars, OptVars, ProcVars, LexVars>>

\* PartialEvaluator.visit_def
Evaluator_visit_def(node, sc) == AstDef(node[2], Visit(node[3], sc))

\* PartialEvaluator.visit_while up to the `while True` loop
W_EvaluatorVisitWhile ==
    /\ call_fn = "none"
    /\ call_fn' = "PartialEvaluator.visit_while"
    /\ LET node == call_args[1]
           free_vars == InfoFreeVars(node[2][2]) \cup InfoFreeVars(node[2][4])
           changed_vars == {node[3][2]}
       IN  IF free_vars \cap changed_vars # {}
           THEN /\ call_result' = <<>>
                /\ while_frame' = [scope |-> LoopScope, result |-> <<>>, visits |-> 0,
                                   kept |-> node]
           ELSE call_result' = Returned(<<"RuntimeError">>, 0) /\ while_frame' = <<>>
    /\ UNCHANGED call_args
    /\ UNCHANGED <<GraphVars, PdfVars, SsaVars, SymVars, OptVars, ProcVars, LexVars>>

\* PartialEvaluator.visit_while: one pass of the `while True` loop
W_EvaluatorIterate ==
    /\ call_fn = "PartialEvaluator.visit_while"
    /\ while_frame # <<>>
    /\ LET node == call_args[1]
           f == while_frame
           test == While_visit_compare(node[2], f.scope)
       IN  IF ~ is_boolean(test) \/ Len(f.result) > MAX_WHILE_ITERATIONS
           THEN /\ call_result' = Returned(<<"RuntimeError">>, f.visits)
                /\ while_frame' = <<>>
           ELSE IF test[2] = FALSE
           THEN /\ call_result' = Returned(AstBody(f.result), f.visits)
                /\ while_frame' = <<>>
           ELSE LET item == Evaluator_visit_def(node[3], f.scope)
                IN  /\ while_frame' = [f EXCEPT !.scope = ScopeDefine(f.scope, item[2], item[3]),
                                                !.result = Append(f.result, item),
                                                !.visits = f.visits + 1]
                    /\ UNCHANGED call_result
    /\ UNCHANGED <<call_fn, call_args>>
    /\ UNCHANGED <<GraphVars, PdfVars, SsaVars, SymVars, OptVars, ProcVars, LexVars>>

WhileInit ==
    /\ call_fn = "none"
    /\ call_args \in { <<CountingLoop(n)>> : n \in 0..MaxWhileBound }
    /\ call_result = <<>>
    /\ while_frame = <<>>
    /\ GraphIdle /\ PdfIdle /\ SsaIdle /\ SymIdle /\ OptIdle /\ ProcIdle /\ LexIdle

WhileNext ==
    \/ W_OptimizerVisitWhile
    \/ W_OptimizerIterate
    \/ W_EvaluatorVisitWhile
    \/ W_EvaluatorIterate

SpecWhile == WhileInit /\ [][WhileNext]_vars

\* the number of iterations after which the test of the loop called is false
IterationsNeeded == call_args[1][2][4][2]

\* the copies of the loop body the unrolling of n iterations consists of
UnrolledCopies(n) == [k \in 1..n |-> AstDef("i", AstValue(k))]

\* C22: unrolling a While applies a cap of 100 iterations: the body is visited
\* at most 100 times; a loop whose test is false after n <= 100 iterations is
\* replaced by the Body of its n unrolled copies; a loop that needs more is
\* kept as the original While.
C22_UnrollCapIsHundred ==
    (call_fn \in {"Optimizer.visit_while", "PartialEvaluator.visit_while"} /\ call_result # <<>>)
        => /\ call_result.visits <= MAX_WHILE_ITERATIONS
           /\ IterationsNeeded <= MAX_WHILE_ITERATIONS
                => call_result.node = <<"body", UnrolledCopies(IterationsNeeded)>>
           /\ IterationsNeeded > MAX_WHILE_ITERATIONS
                => call_result.node = call_args[1]

(***************************************************************************)
(*                    PART 12: IF CHAINS AS DICTIONARIES                   *)
(*                                                                         *)
(* Optimizer.visit_if (src/pyppl/ppl_optimizers.py) on chains              *)
(* `if t1: a1 elif t2: a2 ... [else: d]` whose tests compare a symbol with *)
(* a constant and whose arms are constants, and the lookup of              *)
(* Optimizer.visit_subscript in the Dict it builds.                        *)
(*   <<"dict", items>> with items a function from keys to nodes            *)
(*   <<"subscript", base, index, default>>                                 *)
(***************************************************************************)
AstDict(items) == <<"dict", items>>

AstSubscript(base, index, default) == <<"subscript", base, index, default>>

\* AstIf.cond_tuples: the (test, body) pairs of the chain, a final else as (True, body)
RECURSIVE cond_tuples(_)
cond_tuples(node) ==
    IF has_else(node) /\ IsIf(node[4])
    THEN << <<node[2], node[3]>> >> \o cond_tuples(node[4])
    ELSE IF has_else(node)
    THEN << <<node[2], node[3]>>, <<AstValue(TRUE), node[4]>> >>
    ELSE << <<node[2], node[3]>> >>

\* AstCompare.is_equality_const_test
is_equality_const_test(x) ==
    x[1] = "compare" /\ x[3] = "==" /\ (x[2][1] = "value" \/ x[4][1] = "value")

\* Optimizer.visit_if: the loop filling test_vars and test_values, which breaks
\* at the first test that is a constant or does not compare a symbol with a constant
RECURSIVE TestPairs(_)
TestPairs(cond_test) ==
    IF cond_test = <<>> THEN <<>>
    ELSE LET item == Head(cond_test)
         IN  IF item[1] = "value" THEN <<>>
             ELSE IF item[2][1] = "value" /\ is_symbol(item[4])
                  THEN << <<item[4][2], item[2][2]>> >> \o TestPairs(Tail(cond_test))
             ELSE IF is_symbol(item[2]) /\ item[4][1] = "value"
                  THEN << <<item[2][2], item[4][2]>> >> \o TestPairs(Tail(cond_test))
             ELSE <<>>

\* `{ a.value: b for a, b in zip(test_values, cond_body) }`: a later pair
\* with a key that is already there replaces the value
RECURSIVE DictFromPairs(_, _, _)
DictFromPairs(pairs, bodies, items) ==
    IF pairs = <<>> \/ bodies = <<>> THEN items
    ELSE DictFromPairs(Tail(pairs), Tail(bodies), Put(items, Head(pairs)[2], Head(bodies)))

\* Optimizer.visit_if for chains with constant arms and tests that are comparisons
RECURSIVE Optimizer_visit_if(_)
Optimizer_visit_if(node) ==
    LET cond == cond_tuples(node)
        n == Len(cond)
        cond_test == [k \in 1..n |-> cond[k][1]]
        cond_body == [k \in 1..n |-> cond[k][2]]
        all_const_tests == \A k \in 1..n : is_equality_const_test(cond_test[k])
        all_but_last == (\A k \in 1..(n - 1) : is_equality_const_test(cond_test[k]))
                            /\ is_boolean_true(cond_test[n])
        pairs == TestPairs(cond_test)
        one_var == Cardinality({ pairs[k][1] : k \in 1..Len(pairs) }) = 1
        plain == AstIf(node[2], node[3],
                       IF has_else(node) /\ IsIf(node[4]) THEN Optimizer_visit_if(node[4])
                       ELSE node[4])
    IN  IF n > 1 /\ (\A k \in 1..n : cond_body[k] = cond_body[1]) THEN node[3]
        ELSE IF n > 1 /\ (all_const_tests \/ all_but_last)
                      /\ (\A k \in 1..n : can_embed(cond_body[k]))
             THEN IF Len(pairs) = n /\ one_var
                  THEN AstSubscript(AstDict(DictFromPairs(pairs, cond_body, << >>)),
                                    AstSymbol(pairs[1][1]), None)
                  ELSE IF Len(pairs) = n - 1 /\ one_var /\ is_boolean_true(cond_test[n])
                  THEN AstSubscript(AstDict(DictFromPairs(pairs, cond_body, << >>)),
                                    AstSymbol(pairs[1][1]), cond_body[n])
                  ELSE plain
        ELSE plain

\* Optimizer.visit_subscript with a Dict as base and the constant v as index:
\* `base.items.get(index.value, default)`
DictLookup(node, v) ==
    IF v \in DOMAIN node[2][2] THEN node[2][2][v] ELSE node[4]

\* the chains of the model
MaxChainTests == 3

ChainTests ==
    { AstCompare(AstSymbol("s"), "==", AstValue(1)), AstCompare(AstSymbol("s"), "==", AstValue(2)),
      AstCompare(AstValue(2), "==", AstSymbol("s")), AstCompare(AstSymbol("t"), "==", AstValue(1)),
      AstCompare(AstSymbol("s"), "<", AstValue(2)) }

ChainArms == { AstValue(10), AstValue(20), AstValue(30) }

RECURSIVE Chains(_)
Chains(n) ==
    IF n = 1
    THEN { AstIf(t, a, d) : t \in ChainTests, a \in ChainArms, d \in ChainArms \cup {None} }
    ELSE { AstIf(t, a, c) : t \in ChainTests, a \in ChainArms, c \in Chains(n - 1) }

V_VisitIf ==
    /\ call_fn = "none"
    /\ call_fn' = "Optimizer.visit_if"
    /\ call_result' = Optimizer_visit_if(call_args[1])
    /\ UNCHANGED call_args
    /\ UNCHANGED NotCall

ChainInit ==
    /\ call_fn = "none"
    /\ call_args \in { <<c>> : c \in UNION { Chains(n) : n \in 2..MaxChainTests } }
    /\ call_result = <<>>
    /\ GraphIdle /\ PdfIdle /\ SsaIdle /\ SymIdle /\ OptIdle /\ ProcIdle /\ LexIdle /\ WhileIdle

ChainNext == V_VisitIf

SpecChain == ChainInit /\ [][ChainNext]_vars

\* the values the symbol of the tests takes
ChainValues == 0..3

\* the value of a test when the symbol `name` has the value v
TestHolds(test, name, v) ==
    LET side(x) == IF is_symbol(x) THEN (IF x[2] = name THEN v ELSE 0) ELSE x[2]
    IN  IF test[3] = "==" THEN side(test[2]) = side(test[4]) ELSE side(test[2]) < side(test[4])

\* the arm the chain selects: that of the first test that holds, else the
\* final else-arm, None without one
RECURSIVE ChainArm(_, _, _)
ChainArm(node, name, v) ==
    IF TestHolds(node[2], name, v) THEN node[3]
    ELSE IF has_else(node) /\ IsIf(node[4]) THEN ChainArm(node[4], name, v)
    ELSE node[4]

\* C23: when visit_if returns a lookup in a Dict indexed by the symbol s, the
\* lookup selects, for every value of s, the arm the chain selects: that of
\* the first test that matches, the final else-arm when none does.
C23_DictSelectsTheChainsArm ==
    (call_fn = "Optimizer.visit_if" /\ call_result[1] = "subscript")
        => \A v \in ChainValues :
                DictLookup(call_result, v) = ChainArm(call_args[1], call_result[3][2], v)

(***************************************************************************)
(*                    PART 13: THE CATEGORY TABLE                          *)
(*                                                                         *)
(* CategoryCodes (src/pyppl/lexer.py) as a client uses it:                 *)
(* `catcodes[key] = cat` followed by `catcodes[key]`, and the assignments  *)
(* of ClojureLexer.__init__ (src/pyppl/ppl_clojure_lexer.py).  A key is a  *)
(* str (the sequence of its code points), a tuple of one-character strs or *)
(* an int.  The variables of PART 7 hold the call.                         *)
(***************************************************************************)
CatCodes ==
    { "INVALID", "IGNORE", "WHITESPACE", "ALPHA", "NUMERIC", "SYMBOL", "DELIMITER",
      "LEFT_BRACKET", "RIGHT_BRACKET", "NEWLINE", "STRING_DELIMITER", "ESCAPE", "LINE_COMMENT" }

\* CategoryCodes.__init__: self.catcodes, a list of char_range = 128 entries
InitialTable == [c \in 0..127 |-> catcodes(c)]

StrKey(chars) == [type |-> "str", chars |-> chars]

TupleKey(chars) == [type |-> "tuple", chars |-> chars]

IntKey(n) == [type |-> "int", n |-> n]

\* CategoryCodes.__setitem__: the table after the call and the exception raised
CategoryCodes_setitem(table, key, value) ==
    IF key.type = "str" /\ Len(key.chars) = 1
    THEN [raised |-> "none", table |-> table]
    ELSE IF key.type # "int" \/ ~ (0 <= key.n /\ key.n < 128)
    THEN [raised |-> "TypeError", table |-> table]
    ELSE [raised |-> "none", table |-> table]

\* CategoryCodes.__getitem__: the category returned or the exception raised;
\* ord of an int raises TypeError
CategoryCodes_getitem(table, item) ==
    IF item.type = "str" /\ Len(item.chars) = 1
    THEN IF item.chars[1] \in DOMAIN table THEN table[item.chars[1]] ELSE "IndexError"
    ELSE "TypeError"

\* the keys and categories of the assignments of the model: , ; ! a _ newline
\* and e-acute as strs, the tuple ('\n', ','), the ints 44, 200 and -1
TableKeys ==
    { StrKey(<<c>>) : c \in {10, 33, 44, 59, 95, 97, 233} }
        \cup { TupleKey(<<10, 44>>), IntKey(44), IntKey(200), IntKey(-1) }

\* `catcodes[key] = cat`
K_SetItem ==
    /\ call_fn = "none"
    /\ Len(call_args) = 2
    /\ call_fn' = "CategoryCodes.__setitem__"
    /\ call_result' = CategoryCodes_setitem(InitialTable, call_args[1], call_args[2])
    /\ UNCHANGED call_args
    /\ UNCHANGED NotCall

\* a later `catcodes[key]`
K_GetItem ==
    /\ call_fn = "CategoryCodes.__setitem__"
    /\ call_result.raised = "none"
    /\ call_fn' = "CategoryCodes.__getitem__"
    /\ call_result' = [call_result EXCEPT
                            !.raised = IF CategoryCodes_getitem(call_result.table, call_args[1])
                                            \in {"TypeError", "IndexError"}
                                       THEN CategoryCodes_getitem(call_result.table, call_args[1])
                                       ELSE "none"]
                        @@ [value |-> CategoryCodes_getitem(call_result.table, call_args[1])]
    /\ UNCHANGED call_args
    /\ UNCHANGED NotCall

\* ClojureLexer.__init__(text): Lexer(text) ends with the assertion that its
\* argument is a CharacterStream, which a str is not; with assertions switched
\* off the next line refers to lexer.BufferedIterator, which lexer.py does not
\* define.  The assignments to catcodes are not reached.
K_ClojureLexerInit ==
    /\ call_fn = "none"
    /\ Len(call_args) = 1
    /\ call_fn' = "ClojureLexer.__init__"
    /\ \E raised \in {"AssertionError", "AttributeError"} :
            call_result' = [raised |-> raised, table |-> InitialTable]
    /\ UNCHANGED call_args
    /\ UNCHANGED NotCall

TableInit ==
    /\ call_fn = "none"
    /\ call_args \in { <<key, cat>> : key \in TableKeys, cat \in CatCodes }
                        \cup { <<text>> : text \in { <<44>>, <<59>>, <<43>> } }
    /\ call_result = <<>>
    /\ GraphIdle /\ PdfIdle /\ SsaIdle /\ SymIdle /\ OptIdle /\ ProcIdle /\ LexIdle /\ WhileIdle

TableNext ==
    \/ K_SetItem
    \/ K_GetItem
    \/ K_ClojureLexerInit

SpecTable == TableInit /\ [][TableNext]_vars

\* the characters !$%&*+-./:<>=? of the Lisp configuration
LispAlpha == {33, 36, 37, 38, 42, 43, 45, 46, 47, 58, 60, 62, 61, 63}

\* C26: after `catcodes[ch] = cat` for a character ch, a later look-up of ch
\* returns cat; and the table a ClojureLexer is constructed with has `,` as
\* whitespace, `;` as the start of a line comment and !$%&*+-./:<>=? as the
\* characters of names.
C26_AssignedCategoryIsLookedUp ==
    /\ (call_fn = "CategoryCodes.__getitem__" /\ call_args[1].type = "str"
            /\ Len(call_args[1].chars) = 1)
        => call_result.value = call_args[2]
    /\ call_fn = "ClojureLexer.__init__"
        => /\ call_result.raised = "none"
           /\ call_result.table[44] = "WHITESPACE"
           /\ call_result.table[59] = "LINE_COMMENT"
           /\ \A c \in LispAlpha : call_result.table[c] = "ALPHA"

(***************************************************************************)
(* Part 14.  The type lattice of src/pyppl/ppl_types.py: the subtype test  *)
(* `item in self` of Type and SequenceType, and Type.union.  A type is a   *)
(* record of its name, its item type and its size; an absent item type or  *)
(* size (None) is the empty sequence, a present one a sequence of one.     *)
(***************************************************************************)
NoType == <<>>

BasicType(name) == [name |-> name, item |-> <<>>, size |-> <<>>]

AnyType == BasicType("Any")

NullType == BasicType("Null")

Numeric == BasicType("Numeric")

Float == BasicType("Float")

Integer == BasicType("Integer")

Boolean == BasicType("Boolean")

List == BasicType("List")

Tuple == BasicType("Tuple")

String == BasicType("String")

\* isinstance(t, SequenceType)
IsSequenceType(t) == t.name \in {"List", "Tuple", "String"}

\* SequenceType.item_type: a recursive sequence type is its own item type
item_type(t) == IF t.name = "String" THEN <<t>> ELSE t.item

\* the `base` each type is constructed with: the module's constants, and
\* base=self in SequenceType.__getitem__
TypeBase(t) ==
    IF t.size # <<>> THEN <<[t EXCEPT !.size = <<>>]>>
    ELSE IF t.item # <<>> THEN <<[t EXCEPT !.item = <<>>]>>
    ELSE CASE t.name = "Any" -> NoType
           [] t.name = "Float" -> <<Numeric>>
           [] t.name = "Integer" -> <<Float>>
           [] t.name = "Boolean" -> <<Integer>>
           [] OTHER -> <<AnyType>>

\* SequenceType.__getitem__: List[item] for an item that is a type (is_int
\* FALSE) and List[item][size] for an item that is an int; TypeError is NoType
SequenceType_getitem(self, is_int, item) ==
    IF self.name = "String" THEN NoType
    ELSE IF self.item = <<>>
    THEN IF is_int THEN NoType ELSE <<[self EXCEPT !.item = <<item>>]>>
    ELSE IF self.size = <<>> /\ is_int /\ item >= 0 THEN <<[self EXCEPT !.size = <<item>>]>>
    ELSE NoType

RECURSIVE TypeContains(_, _)

\* Type.__contains__: `item in self` for a self that is no sequence type;
\* `None in self` is False
Type_contains(self, item) ==
    IF item = self THEN TRUE
    ELSE TypeBase(item) # NoType /\ TypeContains(self, TypeBase(item)[1])

\* SequenceType.__contains__.  `item is self` is the identity of objects; two
\* equal sequence types that are different objects reach True by the branch of
\* the same sequence type.
SequenceType_contains(self, item) ==
    IF item = self THEN TRUE
    ELSE IF IsSequenceType(item) /\ item.name = self.name
    THEN IF item_type(self) = NoType THEN TRUE
         ELSE /\ item_type(item) # NoType
              /\ TypeContains(item_type(self)[1], item_type(item)[1])
              /\ (self.size = <<>> \/ self.size = item.size)
    ELSE item = NullType

\* `item in self`
TypeContains(self, item) ==
    IF IsSequenceType(self) THEN SequenceType_contains(self, item)
    ELSE Type_contains(self, item)

\* Type.union, which SequenceType inherits
RECURSIVE Type_union(_, _)
Type_union(self, other) ==
    IF TypeContains(self, other) THEN self
    ELSE IF TypeContains(other, self) THEN other
    ELSE IF TypeBase(self) # NoType /\ TypeBase(other) # NoType
    THEN Type_union(TypeBase(self)[1], TypeBase(other)[1])
    ELSE AnyType

\* the sizes of the sized sequence types of the model
MaxTypeSize == 3

TypeSizes == 2..MaxTypeSize

\* the types that are item types in the model
ItemTypes == {AnyType, NullType, Numeric, Float, Integer, Boolean, String, List, Tuple}

\* the lattice of the model: the constants of the module, List[t] and
\* Tuple[t], and List[t][n] and Tuple[t][n]
TypeLattice ==
    ItemTypes
        \cup { SequenceType_getitem(f, FALSE, t)[1] : f \in {List, Tuple}, t \in ItemTypes }
        \cup { SequenceType_getitem(SequenceType_getitem(f, FALSE, t)[1], TRUE, n)[1] :
                    f \in {List, Tuple}, t \in ItemTypes, n \in TypeSizes }

\* `a.union(b)`
U_Union ==
    /\ call_fn = "none"
    /\ call_fn' = "Type.union"
    /\ call_result' = Type_union(call_args[1], call_args[2])
    /\ UNCHANGED call_args
    /\ UNCHANGED NotCall

\* `b in a`
U_Contains ==
    /\ call_fn = "none"
    /\ call_fn' = "Type.__contains__"
    /\ call_result' = TypeContains(call_args[1], call_args[2])
    /\ UNCHANGED call_args
    /\ UNCHANGED NotCall

TypesInit ==
    /\ call_fn = "none"
    /\ call_args \in TypeLattice \X TypeLattice
    /\ call_result = <<>>
    /\ GraphIdle /\ PdfIdle /\ SsaIdle /\ SymIdle /\ OptIdle /\ ProcIdle /\ LexIdle /\ WhileIdle

TypesNext ==
    \/ U_Union
    \/ U_Contains

SpecTypes == TypesInit /\ [][TypesNext]_vars

\* C28: for all types a and b of the lattice, union(a, b) is a supertype of
\* both a and b, every type of the lattice that is a supertype of both is a
\* supertype of union(a, b), union(a, b) = union(b, a), and union(a, a) = a.
C28_UnionIsLeastUpperBound ==
    call_fn = "Type.union"
        => /\ TypeContains(call_result, call_args[1])
           /\ TypeContains(call_result, call_args[2])
           /\ \A u \in TypeLattice :
                (TypeContains(u, call_args[1]) /\ TypeContains(u, call_args[2]))
                    => TypeContains(u, call_result)
           /\ call_result = Type_union(call_args[2], call_args[1])
           /\ (call_args[1] = call_args[2] => call_result = call_args[1])

(***************************************************************************)
(* Part 15.  SymbolSimplifier (src/pyppl/transforms/ppl_symbol_simplifier  *)
(* .py).  A name is the sequence of its characters.  The simplifier's two  *)
(* dictionaries are functions; call_args is the sequence of the names the  *)
(* visitor has met, each with the kind of node it was met in, and          *)
(* call_result holds the dictionaries and the names returned.              *)
(***************************************************************************)
\* str.startswith
StartsWith(name, prefix) ==
    Len(name) >= Len(prefix) /\ SubSeq(name, 1, Len(prefix)) = prefix

\* str.index: the 0-based position of the first occurrence of sub from
\* position i on, -1 where Python raises ValueError
RECURSIVE StrIndex(_, _, _)
StrIndex(name, sub, i) ==
    IF i + Len(sub) > Len(name) THEN -1
    ELSE IF SubSeq(name, i + 1, i + Len(sub)) = sub THEN i
    ELSE StrIndex(name, sub, i + 1)

\* `sub in name`
StrContains(name, sub) == StrIndex(name, sub, 0) # -1

Underscores2 == <<"_", "_">>

Underscores4 == <<"_", "_", "_", "_">>

\* the lines shared by both branches of simplify_symbol that shorten a name:
\* count the short name, append "_{count}" from its second use on, and put
\* the name into names_map
Shorten(self, name, short) ==
    IF short \notin DOMAIN self.name_count
    THEN [short |-> short,
          names_map |-> Put(self.names_map, name, short),
          name_count |-> Put(self.name_count, short, 1)]
    ELSE [short |-> short \o <<"_">> \o IntToStr(self.name_count[short] + 1),
          names_map |-> Put(self.names_map, name,
                            short \o <<"_">> \o IntToStr(self.name_count[short] + 1)),
          name_count |-> Put(self.name_count, short, self.name_count[short] + 1)]

\* SymbolSimplifier.simplify_symbol: the name returned and the dictionaries
\* after the call
simplify_symbol(self, name) ==
    IF StartsWith(name, Underscores2)
    THEN IF StrContains(name, Underscores4)
         THEN Shorten(self, name, SubSeq(name, 1, StrIndex(name, Underscores4, 0) + 2))
         ELSE [self EXCEPT !.short = name]
    ELSE IF name \in DOMAIN self.names_map
    THEN [self EXCEPT !.short = self.names_map[name]]
    ELSE IF StrContains(name, Underscores2)
    THEN Shorten(self, name, SubSeq(name, 1, StrIndex(name, Underscores2, 0)))
    ELSE [self EXCEPT !.short = name]

\* the number of names one program of the model mentions
MaxOccurrences == 3

\* the names of the model: x, x_2, y__1, x__1, x__2, __t and __t____1
SimplifierNames ==
    { <<"x">>, <<"x", "_", "2">>, <<"y", "_", "_", "1">>,
      <<"x", "_", "_", "1">>, <<"x", "_", "_", "2">>,
      <<"_", "_", "t">>, <<"_", "_", "t", "_", "_", "_", "_", "1">> }

\* the call of simplify_symbol that visit_def, visit_let and visit_symbol make
\* on the name of their node
SimplifyOccurrence(kind, name) ==
    /\ call_fn = "SymbolSimplifier"
    /\ Len(call_args) < MaxOccurrences
    /\ call_args' = Append(call_args, <<kind, name>>)
    /\ LET after == simplify_symbol(call_result.self, name)
       IN call_result' = [self |-> after, names |-> Append(call_result.names, after.short)]
    /\ UNCHANGED call_fn
    /\ UNCHANGED NotCall

\* SymbolSimplifier.visit_def
Z_VisitDef == \E name \in SimplifierNames : SimplifyOccurrence("def", name)

\* SymbolSimplifier.visit_let
Z_VisitLet == \E name \in SimplifierNames : SimplifyOccurrence("let", name)

\* SymbolSimplifier.visit_symbol
Z_VisitSymbol == \E name \in SimplifierNames : SimplifyOccurrence("symbol", name)

\* SymbolSimplifier.__init__
SimplifierInit ==
    /\ call_fn = "SymbolSimplifier"
    /\ call_args = <<>>
    /\ call_result = [self |-> [short |-> <<>>, names_map |-> <<>>, name_count |-> <<>>],
                      names |-> <<>>]
    /\ GraphIdle /\ PdfIdle /\ SsaIdle /\ SymIdle /\ OptIdle /\ ProcIdle /\ LexIdle /\ WhileIdle

SimplifierNext ==
    \/ Z_VisitDef
    \/ Z_VisitLet
    \/ Z_VisitSymbol

SpecSimplifier == SimplifierInit /\ [][SimplifierNext]_vars

\* C30: any two occurrences of names in a program (the target of a Def, the
\* target of a Let or a Symbol) are given the same short name if and only if
\* they had the same name before.
C30_SimplifierPreservesNameIdentity ==
    call_fn = "SymbolSimplifier"
        => \A i, j \in 1..Len(call_args) :
                call_result.names[i] = call_result.names[j] <=> call_args[i][2] = call_args[j][2]

====
